---- MODULE Spec2Model ----
(***************************************************************************)
(* Model of the tahoe-conditions pipeline (src/tahoe_conditions):          *)
(*   - the extraction adapters (adapters/*.py) and their registry,         *)
(*   - the NWS weather enrichment (weather/nws.py),                        *)
(*   - the resort orchestrator (main.py: process_resort, update_command),  *)
(*   - the last-known-good store (output.py).                              *)
(*                                                                         *)
(* Conventions.  A Python Optional[T] is the set {} (None) or {v}.  A page *)
(* is described by what the adapter's pattern searches find in its markup  *)
(* (the regular expressions themselves are the input alphabet of the       *)
(* model), plus the place where an exception is raised while parsing.      *)
(* Inches are whole numbers.                                               *)
(***************************************************************************)
EXTENDS Integers, Sequences, FiniteSets, TLC

\* ------------------------------------------------------------------ bounds
MaxRuns == 2
MaxCount == 2
MaxCalls == 2
\* the duration of one network call, in ticks of half a second
Latency == 1
\* the longest text given to parse_inches, in characters
MaxLen == 4
\* how long the clock runs while workers are in _rate_limit, in ticks
MaxTicks == 4

\* ---------------------------------------------------------------- Optional
None == {}

Some(v) == {v}

Val(o) == CHOOSE v \in o : TRUE

\* `x or 0` on an Optional[int]
OrZero(o) == IF o = {} THEN 0 ELSE Val(o)

\* ------------------------------------------------------------ models.py
Operations ==
  [open_flag |-> None, lifts_open |-> None, lifts_scheduled |-> None,
   lifts_total |-> None, trails_open |-> None, trails_scheduled |-> None,
   trails_total |-> None]

Snow ==
  [new_snow_24h_in |-> None, new_snow_48h_in |-> None, base_depth_in |-> None,
   season_total_in |-> None, surface |-> None, report_updated_at |-> None]

Weather ==
  [temp_f |-> None, wind_mph |-> None, wind_gust_mph |-> None,
   short_forecast |-> None, forecast_period_name |-> None]

Sources(ops_url, points_url, forecast_url) ==
  [ops_url |-> ops_url, weather_points_url |-> points_url,
   weather_forecast_url |-> forecast_url]

ResortConditions(slug, name, now, stale, sources, ops, snow, weather) ==
  [slug |-> slug, name |-> name, fetched_at_utc |-> now, stale |-> stale,
   sources |-> sources, ops |-> ops, snow |-> snow, weather |-> weather]

\* ------------------------------------------------------- adapters/base.py
\* ParseResult() with its dataclass defaults
ParseResult ==
  [success |-> FALSE, ops |-> Operations, snow |-> Snow, error |-> None,
   needs_headless |-> FALSE]

\* BaseAdapter.parse_inches.  A text is a sequence of characters; a character
\* is written by itself or by its name ("quote" is '"', "endash" is U+2013,
\* and "a_circumflex", "euro", "ldquo" are U+00E2, U+20AC, U+201C).  A float
\* is an integer number of units, Unit units to the inch.
Digits == {"0", "1", "2", "3", "4", "5", "6", "7", "8", "9"}

DigitVal(c) ==
  CASE c = "0" -> 0 [] c = "1" -> 1 [] c = "2" -> 2 [] c = "3" -> 3
    [] c = "4" -> 4 [] c = "5" -> 5 [] c = "6" -> 6 [] c = "7" -> 7
    [] c = "8" -> 8 [] c = "9" -> 9

\* \s
Whitespace == {" "}

\* the class [-...] of the range pattern, character by character as the
\* source file spells it
RangeSeparators == {"-", "a_circumflex", "euro", "ldquo"}

RECURSIVE Pow10(_)
Pow10(n) == IF n = 0 THEN 1 ELSE 10 * Pow10(n - 1)

Unit == 2 * Pow10(MaxLen)

\* text.strip()
RECURSIVE lstrip(_)
lstrip(text) ==
  IF text # <<>> /\ Head(text) \in Whitespace THEN lstrip(Tail(text)) ELSE text

RECURSIVE rstrip(_)
rstrip(text) ==
  IF text # <<>> /\ text[Len(text)] \in Whitespace
  THEN rstrip(SubSeq(text, 1, Len(text) - 1))
  ELSE text

strip(text) == rstrip(lstrip(text))

\* text.lower(): of the characters used here only the letters I and N change
lower(text) ==
  [k \in 1..Len(text) |->
     IF text[k] = "I" THEN "i" ELSE IF text[k] = "N" THEN "n" ELSE text[k]]

\* the position after the longest run of \d (of \s) that starts at i
RECURSIVE RunEnd(_, _, _)
RunEnd(text, i, class) ==
  IF i <= Len(text) /\ text[i] \in class THEN RunEnd(text, i + 1, class) ELSE i

\* the position after the match of \d+(?:\.\d+)? at i, where text[i] is \d
NumberEnd(text, i) ==
  LET j == RunEnd(text, i, Digits)
  IN IF j + 1 <= Len(text) /\ text[j] = "." /\ text[j + 1] \in Digits
     THEN RunEnd(text, j + 1, Digits)
     ELSE j

\* int of a run of digits
RECURSIVE DigitsVal(_)
DigitsVal(ds) ==
  IF ds = <<>> THEN 0
  ELSE 10 * DigitsVal(SubSeq(ds, 1, Len(ds) - 1)) + DigitVal(ds[Len(ds)])

\* float(match.group(n)) of the group text[i .. j-1]
float(text, i, j) ==
  LET k == RunEnd(text, i, Digits)
  IN IF k = j THEN DigitsVal(SubSeq(text, i, j - 1)) * Unit
     ELSE DigitsVal(SubSeq(text, i, k - 1)) * Unit
          + (DigitsVal(SubSeq(text, k + 1, j - 1)) * Unit) \div Pow10(j - k - 1)

\* the match of (\d+(?:\.\d+)?)\s*[-...]\s*(\d+(?:\.\d+)?) that starts at i:
\* the two groups, or none
range_match_at(text, i) ==
  IF text[i] \notin Digits THEN None
  ELSE LET e1 == NumberEnd(text, i)
           k == RunEnd(text, e1, Whitespace)
       IN IF k > Len(text) \/ text[k] \notin RangeSeparators THEN None
          ELSE LET m == RunEnd(text, k + 1, Whitespace)
               IN IF m > Len(text) \/ text[m] \notin Digits THEN None
                  ELSE Some([low |-> float(text, i, e1),
                             high |-> float(text, m, NumberEnd(text, m))])

\* re.search: the match at the leftmost position that has one
range_search(text) ==
  LET starts == {i \in 1..Len(text) : range_match_at(text, i) # None}
  IN IF starts = {} THEN None
     ELSE range_match_at(text, CHOOSE i \in starts : \A j \in starts : i <= j)

\* re.search of (\d+(?:\.\d+)?)\s*(?:"|in|inches?)?: group 1
single_search(text) ==
  LET starts == {i \in 1..Len(text) : text[i] \in Digits}
  IN IF starts = {} THEN None
     ELSE LET i == CHOOSE i \in starts : \A j \in starts : i <= j
          IN Some(float(text, i, NumberEnd(text, i)))

\* text is None (absent) or Some(string)
parse_inches(text) ==
  IF text = None \/ Val(text) = <<>> THEN None
  ELSE LET t == lower(strip(Val(text)))
           range_match == range_search(t)
       IN IF range_match # None
          THEN Some((Val(range_match).low + Val(range_match).high) \div 2)
          ELSE single_search(t)

\* ------------------------------------------------------------------ pages
\* What the pattern searches of an adapter find in a page:
\*   fault     "none", "body" (an exception is raised inside the parse body,
\*             e.g. markup that is not a string), "payload" (the embedded
\*             structured payload does not decode) or "shape" (the payload
\*             decodes but a member has another type than the adapter reads:
\*             FR.TerrainStatusFeed = {"Lifts": null}, or __INITIAL_STATE__ =
\*             {"lifts": {"open": "3"}}),
\*   lifts_open / lifts_total / trails_open / trails_total  the counts found,
\*   sched     the number of lifts whose status is "scheduled" (None when the
\*             page lists no per-lift status),
\*   phrase    the explicit closed / open phrase of the page, if any,
\*   s24, s48, base, season   the snow figures found.
Counts == 0..MaxCount

OptCounts == {None} \cup {Some(n) : n \in Counts}

Pages ==
  { p \in [fault : {"none", "body", "payload", "shape"},
           lifts_open : OptCounts, lifts_total : OptCounts,
           trails_open : OptCounts, trails_total : {None, Some(MaxCount)},
           sched : {None, Some(0), Some(1)},
           phrase : {"none", "closed", "open"},
           s24 : {None, Some(0), Some(6)}, s48 : {None},
           base : {None, Some(48)}, season : {None}] :
      /\ (p.lifts_open = None => p.lifts_total = None)
      /\ (p.trails_open = None => p.trails_total = None)
      /\ (p.sched # None =>
            /\ p.lifts_total # None
            /\ Val(p.lifts_open) + Val(p.sched) <= Val(p.lifts_total)) }

PageOf(lo, lt, tr, tt, sc, ph, s24, base) ==
  [fault |-> "none", lifts_open |-> lo, lifts_total |-> lt, trails_open |-> tr,
   trails_total |-> tt, sched |-> sc, phrase |-> ph, s24 |-> s24, s48 |-> None,
   base |-> base, season |-> None]

\* what the pattern searches of the generic adapter find in the page of
\* test_parse_simple_conditions: '5/10 Lifts Open', '20/50 Trails Open',
\* '6" in last 24 hours', 'Base: 48"' (no 48 hour figure, no season total)
TestPage == PageOf(Some(5), Some(10), Some(20), Some(50), None, "none",
                   Some(6), Some(48))

\* snow facts as every text adapter fills them from the figures found
SnowOf(p) ==
  [Snow EXCEPT !.new_snow_24h_in = p.s24, !.new_snow_48h_in = p.s48,
               !.base_depth_in = p.base, !.season_total_in = p.season]

\* ------------------------------------------------------ calls and raises
\* The outcome of a call: the value it returns, or the exception it raises
\* ("FetchError", or "Exception" for any other subclass of Exception).
Return(v) == [raised |-> "no", value |-> v]

Raise(exc) == [raised |-> exc, value |-> None]

\* a handler that returns the fresh result without recording the error
CaughtNoError == ParseResult

\* the result an adapter returns from its handler:
\* `except Exception as e: result.error = str(e)` on a fresh ParseResult()
Caught == [ParseResult EXCEPT !.error = Some("exception")]

\* parse without its handler: the exception escapes
catch_none(body) == body

\* `try: <body> except Exception as e: ...; return result` around the whole
\* body of parse
catch_all(body) == IF body.raised # "no" THEN Return(Caught) ELSE body

\* ------------------------------------------------ adapters/generic_html.py
_find_open_status(phrase, ops) ==
  IF phrase = "closed" THEN Some(FALSE)
  ELSE IF phrase = "open" THEN Some(TRUE)
  ELSE IF ops.lifts_open # None THEN Some(Val(ops.lifts_open) > 0)
  ELSE None

\* a parse that counts any figure found as a success
GenericHTMLAdapter_parse_any_data(p) ==
  catch_all(IF p.fault = "body" THEN Raise("Exception") ELSE Return(
    LET ops0 == [Operations EXCEPT !.lifts_open = p.lifts_open,
                                   !.lifts_total = p.lifts_total,
                                   !.trails_open = p.trails_open,
                                   !.trails_total = p.trails_total]
        ops == [ops0 EXCEPT !.open_flag = _find_open_status(p.phrase, ops0)]
        snow == SnowOf(p)
        result == [ParseResult EXCEPT !.ops = ops, !.snow = snow]
    IN IF ops.lifts_open # None \/ ops.trails_open # None
          \/ snow.new_snow_24h_in # None \/ snow.base_depth_in # None
       THEN [result EXCEPT !.success = TRUE]
       ELSE [result EXCEPT !.error = Some("Could not extract meaningful data")]))

GenericHTMLAdapter_parse(p) ==
  catch_all(IF p.fault = "body" THEN Raise("Exception") ELSE Return(
    LET ops0 == [Operations EXCEPT !.lifts_open = p.lifts_open,
                                   !.lifts_total = p.lifts_total,
                                   !.trails_open = p.trails_open,
                                   !.trails_total = p.trails_total]
        ops == [ops0 EXCEPT !.open_flag = _find_open_status(p.phrase, ops0)]
        snow == SnowOf(p)
        result == [ParseResult EXCEPT !.ops = ops, !.snow = snow]
    IN IF ops.lifts_open # None \/ snow.new_snow_24h_in # None
       THEN [result EXCEPT !.success = TRUE]
       ELSE [result EXCEPT !.error = Some("Could not extract meaningful data")]))

\* ------------------------------------------------ adapters/vail_resorts.py
\* _count_lift_statuses iterates terrain_data["Lifts"] and calls lift.get:
\* a member of another type raises inside the body of parse
VailResortsAdapter_parse(p) ==
  catch_all(IF p.fault \in {"body", "shape"} THEN Raise("Exception") ELSE Return(
    LET json == p.sched # None /\ p.fault # "payload"
        ops0 == IF json
                THEN [Operations EXCEPT !.lifts_open = p.lifts_open,
                                        !.lifts_scheduled = p.sched,
                                        !.lifts_total = p.lifts_total]
                ELSE [Operations EXCEPT !.lifts_open = p.lifts_open,
                                        !.lifts_total = p.lifts_total]
        ops1 == IF json /\ p.trails_total # None /\ Val(p.trails_total) > 0
                THEN [ops0 EXCEPT !.trails_open = p.trails_open,
                                  !.trails_scheduled = Some(0),
                                  !.trails_total = p.trails_total]
                ELSE IF p.trails_total # None
                THEN [ops0 EXCEPT !.trails_open = p.trails_open,
                                  !.trails_total = p.trails_total]
                ELSE ops0
        lifts_active == OrZero(ops1.lifts_open) + OrZero(ops1.lifts_scheduled)
        trails_active == OrZero(ops1.trails_open) + OrZero(ops1.trails_scheduled)
        flag == IF lifts_active > 0 THEN Some(TRUE)
                ELSE IF trails_active > 0 THEN Some(TRUE)
                ELSE IF ops1.lifts_open # None \/ ops1.lifts_scheduled # None
                THEN Some(FALSE)
                ELSE None
    IN [ParseResult EXCEPT !.ops = [ops1 EXCEPT !.open_flag = flag],
                           !.snow = SnowOf(p), !.success = TRUE]))

\* --------------------------------------------------- adapters/palisades.py
\* _parse_mtnfeed_json copies lifts["open"] as it is; the comparison
\* `ops.lifts_open > 0` of the open status raises on a text
PalisadesAdapter_parse(p) ==
  catch_all(IF p.fault \in {"body", "shape"} THEN Raise("Exception") ELSE Return(
    LET ops0 == [Operations EXCEPT !.lifts_open = p.lifts_open,
                                   !.lifts_total = p.lifts_total,
                                   !.trails_open = p.trails_open,
                                   !.trails_total = p.trails_total]
        flag == IF ops0.lifts_open # None THEN Some(Val(ops0.lifts_open) > 0)
                ELSE IF ops0.trails_open # None
                THEN Some(Val(ops0.trails_open) > 0)
                ELSE None
        success == ops0.lifts_open # None \/ ops0.trails_open # None
        result == [ParseResult EXCEPT !.ops = [ops0 EXCEPT !.open_flag = flag],
                                      !.snow = SnowOf(p), !.success = success]
    IN IF ~success
       THEN [result EXCEPT !.error =
               Some("Could not extract lift/trail data from rendered page")]
       ELSE result))

\* ------------------------------------------------------ adapters/boreal.py
BorealAdapter_parse(p) ==
  catch_all(IF p.fault = "body" THEN Raise("Exception") ELSE Return(
    LET ops0 == [Operations EXCEPT !.lifts_open = p.lifts_open,
                                   !.lifts_total = p.lifts_total,
                                   !.trails_open = p.trails_open,
                                   !.trails_total = p.trails_total]
        flag == IF p.phrase = "closed" THEN Some(FALSE)
                ELSE IF ops0.lifts_open # None
                THEN Some(Val(ops0.lifts_open) > 0)
                ELSE IF ops0.trails_open # None
                THEN Some(Val(ops0.trails_open) > 0)
                ELSE None
        snow == SnowOf(p)
        success == \/ ops0.lifts_open # None
                   \/ ops0.trails_open # None
                   \/ snow.base_depth_in # None
        result == [ParseResult EXCEPT !.ops = [ops0 EXCEPT !.open_flag = flag],
                                      !.snow = snow, !.success = success]
    IN IF ~success
       THEN [result EXCEPT !.error =
               Some("Could not extract conditions data from rendered page")]
       ELSE result))

\* ------------------------------------------------ adapters/tahoe_donner.py
TahoeDonnerAdapter_parse(p) ==
  catch_all(IF p.fault = "body" THEN Raise("Exception") ELSE Return(
    LET ops0 == [Operations EXCEPT !.lifts_open = p.lifts_open,
                                   !.lifts_total = p.lifts_total,
                                   !.trails_open = p.trails_open,
                                   !.trails_total = p.trails_total]
        flag == IF p.phrase = "closed" THEN Some(FALSE)
                ELSE IF ops0.lifts_open # None
                THEN Some(Val(ops0.lifts_open) > 0)
                ELSE IF ops0.trails_open # None
                THEN Some(Val(ops0.trails_open) > 0)
                ELSE None
        snow == [Snow EXCEPT !.new_snow_24h_in = p.s24,
                             !.base_depth_in = p.base,
                             !.season_total_in = p.season]
        success == \/ ops0.lifts_open # None
                   \/ ops0.trails_open # None
                   \/ snow.base_depth_in # None
        result == [ParseResult EXCEPT !.ops = [ops0 EXCEPT !.open_flag = flag],
                                      !.snow = snow, !.success = success]
    IN IF ~success
       THEN [result EXCEPT !.error =
               Some("Could not extract conditions data from rendered page")]
       ELSE result))

\* --------------------------------------------- adapters/sierra_at_tahoe.py
SierraAtTahoeAdapter_parse(p) ==
  catch_all(IF p.fault = "body" THEN Raise("Exception") ELSE Return(
    LET ops0 == [Operations EXCEPT !.lifts_open = p.lifts_open,
                                   !.lifts_total = p.lifts_total,
                                   !.trails_open = p.trails_open,
                                   !.trails_total = p.trails_total]
        flag == Some(ops0.lifts_open # None /\ Val(ops0.lifts_open) > 0)
        snow == [Snow EXCEPT !.new_snow_24h_in = p.s24,
                             !.base_depth_in = p.base,
                             !.season_total_in = p.season]
    IN [ParseResult EXCEPT !.ops = [ops0 EXCEPT !.open_flag = flag],
                           !.snow = snow, !.success = TRUE]))

\* ---------------------------------------------------- adapters/homewood.py
HomewoodAdapter_parse(p) ==
  catch_all(IF p.fault = "body" THEN Raise("Exception") ELSE Return(
    LET ops0 == [Operations EXCEPT !.lifts_open = p.lifts_open,
                                   !.lifts_total = p.lifts_total,
                                   !.trails_open = p.trails_open,
                                   !.trails_total = p.trails_total]
        flag == IF ops0.lifts_open # None THEN Some(Val(ops0.lifts_open) > 0)
                ELSE IF ops0.trails_open # None
                THEN Some(Val(ops0.trails_open) > 0)
                ELSE None
        snow == [Snow EXCEPT !.new_snow_24h_in = p.s24,
                             !.base_depth_in = p.base,
                             !.season_total_in = p.season]
    IN [ParseResult EXCEPT !.ops = [ops0 EXCEPT !.open_flag = flag],
                           !.snow = snow, !.success = TRUE]))

\* -------------------------------------------------- adapters/sugar_bowl.py
SugarBowlAdapter_parse(p) ==
  catch_all(IF p.fault = "body" THEN Raise("Exception") ELSE Return(
    LET ops0 == IF p.sched # None /\ Val(p.lifts_total) > 0
                THEN [Operations EXCEPT !.lifts_open = p.lifts_open,
                                        !.lifts_scheduled = p.sched,
                                        !.lifts_total = p.lifts_total]
                ELSE [Operations EXCEPT !.lifts_open = p.lifts_open,
                                        !.lifts_total = p.lifts_total]
        ops1 == [ops0 EXCEPT !.trails_open = p.trails_open,
                             !.trails_total = p.trails_total]
        lifts_active == OrZero(ops1.lifts_open) + OrZero(ops1.lifts_scheduled)
        flag == IF p.phrase = "open" THEN Some(TRUE)
                ELSE IF lifts_active > 0 THEN Some(TRUE)
                ELSE IF ops1.lifts_open # None \/ ops1.lifts_scheduled # None
                THEN Some(FALSE)
                ELSE None
    IN [ParseResult EXCEPT !.ops = [ops1 EXCEPT !.open_flag = flag],
                           !.snow = SnowOf(p), !.success = TRUE]))

\* ----------------------------------------------------- adapters/mt_rose.py
\* "Scheduled to open" is counted as open
_count_lifts(p) ==
  IF p.lifts_total = None \/ (p.lifts_total # None /\ Val(p.lifts_total) = 0)
  THEN <<None, None>>
  ELSE <<Some(Val(p.lifts_open) + OrZero(p.sched)), p.lifts_total>>

MtRoseAdapter_parse(p) ==
  catch_all(IF p.fault = "body" THEN Raise("Exception") ELSE Return(
    LET lifts == _count_lifts(p)
        ops0 == [Operations EXCEPT !.lifts_open = lifts[1],
                                   !.lifts_total = lifts[2],
                                   !.trails_open = p.trails_open,
                                   !.trails_total = p.trails_total]
        snow == [Snow EXCEPT !.new_snow_24h_in = p.s24,
                             !.base_depth_in = p.base,
                             !.season_total_in = p.season,
                             !.new_snow_48h_in =
                                IF p.s48 # None /\ Val(p.s48) # 0
                                THEN p.s48 ELSE None]
        flag == IF ops0.lifts_open # None /\ Val(ops0.lifts_open) > 0
                THEN Some(TRUE)
                ELSE IF p.phrase = "closed" THEN Some(FALSE)
                ELSE Some(ops0.lifts_open # None /\ Val(ops0.lifts_open) > 0)
    IN [ParseResult EXCEPT !.ops = [ops0 EXCEPT !.open_flag = flag],
                           !.snow = snow, !.success = TRUE]))

\* ------------------------------------------------ adapters/diamond_peak.py
\* The page text as the snow patterns of this adapter read it: a sequence of
\* tokens, each a number, the unit (Inches, Inch or '"') or a label; "24h"
\* is the label '24 hour', whose digits a trailing (\d+) can also match.
\* White space and colons between tokens are left out: every pattern skips
\* them where it allows a token to follow.
Tok(w, n) == [w |-> w, n |-> n]

Num(n) == Tok("num", n)

Word(w) == Tok(w, 0)

H24 == Tok("24h", 24)

\* a pattern is a sequence of sets of token kinds and the place of group 1
Pattern(kinds, group) == [kinds |-> kinds, group |-> group]

MatchAt(text, k, pattern) ==
  /\ k + Len(pattern.kinds) - 1 <= Len(text)
  /\ \A j \in 1..Len(pattern.kinds) : text[k + j - 1].w \in pattern.kinds[j]

\* re.search(pattern, text, re.IGNORECASE) and float(match.group(1)), for
\* a pattern given by its alternatives: the leftmost match
re_search(text, alternatives) ==
  LET hits == {k \in 1..Len(text) :
                 \E a \in alternatives : MatchAt(text, k, a)}
  IN IF hits = {} THEN None
     ELSE LET k == CHOOSE h \in hits : \A g \in hits : h <= g
              a == CHOOSE b \in alternatives : MatchAt(text, k, b)
          IN Some(text[k + a.group - 1].n)

\* _extract_snow_value(text, first, second)
_extract_snow_value(text, first, second) ==
  IF re_search(text, first) # None THEN re_search(text, first)
  ELSE re_search(text, second)

\* (\d+)\s*(?:Inches?|")\s*24\s*H
P24_value_first == {Pattern(<<{"num"}, {"inches"}, {"24h"}>>, 1)}

\* 24\s*[Hh](?:our)?[s]?[:\s]*(\d+)
P24_label_first == {Pattern(<<{"24h"}, {"num", "24h"}>>, 2)}

\* (\d+)\s*(?:Inches?|")\s*overnight
Overnight_value_first == {Pattern(<<{"num"}, {"inches"}, {"overnight"}>>, 1)}

\* overnight[:\s]*(\d+)
Overnight_label_first == {Pattern(<<{"overnight"}, {"num", "24h"}>>, 2)}

\* base[:\s]*(\d+)\s*(?:Inches?|")
Base_pattern == {Pattern(<<{"base"}, {"num"}, {"inches"}>>, 2)}

\* peak[:\s]*(\d+)\s*(?:Inches?|")
Peak_pattern == {Pattern(<<{"peak"}, {"num"}, {"inches"}>>, 2)}

\* season[:\s]*(\d+)\s*(?:Inches?|")
Season_pattern == {Pattern(<<{"season"}, {"num"}, {"inches"}>>, 2)}

\* storm\s*(?:total)?[:\s]*(\d+)\s*(?:Inches?|")
Storm_label_first ==
  {Pattern(<<{"storm"}, {"total"}, {"num"}, {"inches"}>>, 3),
   Pattern(<<{"storm"}, {"num"}, {"inches"}>>, 2)}

\* (\d+)\s*(?:Inches?|")\s*storm\s*(?:total)?
Storm_value_first == {Pattern(<<{"num"}, {"inches"}, {"storm"}>>, 1)}

\* the 24 hour figure, with the overnight figure as its fallback
new_snow_24h(text) ==
  LET found == _extract_snow_value(text, P24_value_first, P24_label_first)
  IN IF found # None THEN found
     ELSE _extract_snow_value(text, Overnight_value_first,
                              Overnight_label_first)

base_depth(text) ==
  IF re_search(text, Base_pattern) # None THEN re_search(text, Base_pattern)
  ELSE re_search(text, Peak_pattern)

\* storm total as the 48 hour proxy: the first of storm_patterns that matches
storm_total(text) ==
  IF re_search(text, Storm_label_first) # None
  THEN re_search(text, Storm_label_first)
  ELSE re_search(text, Storm_value_first)

\* what the snow searches of DiamondPeakAdapter.parse find in a text; the
\* lift and trail rows are searched in the markup, not in the text
DiamondPeakFinds(text, lo, lt, tr, tt, ph) ==
  [PageOf(lo, lt, tr, tt, None, ph, new_snow_24h(text), base_depth(text))
     EXCEPT !.s48 = storm_total(text),
            !.season = re_search(text, Season_pattern)]

DiamondPeakAdapter_parse(p) ==
  catch_all(IF p.fault = "body" THEN Raise("Exception") ELSE Return(
    LET counted == p.lifts_total # None /\ Val(p.lifts_total) > 0
        ops0 == [Operations EXCEPT
                   !.lifts_open = IF counted THEN p.lifts_open ELSE None,
                   !.lifts_total = IF counted THEN p.lifts_total ELSE None,
                   !.trails_open = p.trails_open,
                   !.trails_total = p.trails_total]
        flag == IF ops0.lifts_open # None THEN Some(Val(ops0.lifts_open) > 0)
                ELSE IF p.phrase = "closed" THEN Some(FALSE)
                ELSE IF p.phrase = "open" THEN Some(TRUE)
                ELSE None
    IN [ParseResult EXCEPT !.ops = [ops0 EXCEPT !.open_flag = flag],
                           !.snow = SnowOf(p), !.success = TRUE]))

\* ---------------------------------------- adapters/placeholder_headless.py
PlaceholderHeadlessAdapter_parse(p) ==
  Return([ParseResult EXCEPT
     !.needs_headless = TRUE,
     !.error = Some("This resort requires JavaScript rendering (headless browser)")])

\* ---------------------------------------------------- adapters/registry.py
ADAPTER_REGISTRY ==
  [kind \in {"generic", "boreal", "diamond_peak", "homewood", "mt_rose",
             "palisades", "sierra_at_tahoe", "sugar_bowl", "tahoe_donner",
             "vail_resorts", "placeholder_headless"} |->
     CASE kind = "generic" -> "GenericHTMLAdapter"
       [] kind = "boreal" -> "BorealAdapter"
       [] kind = "diamond_peak" -> "DiamondPeakAdapter"
       [] kind = "homewood" -> "HomewoodAdapter"
       [] kind = "mt_rose" -> "MtRoseAdapter"
       [] kind = "palisades" -> "PalisadesAdapter"
       [] kind = "sierra_at_tahoe" -> "SierraAtTahoeAdapter"
       [] kind = "sugar_bowl" -> "SugarBowlAdapter"
       [] kind = "tahoe_donner" -> "TahoeDonnerAdapter"
       [] kind = "vail_resorts" -> "VailResortsAdapter"
       [] kind = "placeholder_headless" -> "PlaceholderHeadlessAdapter"]

HEADLESS_ADAPTERS == {"boreal", "palisades", "tahoe_donner", "placeholder_headless"}

\* a default that is not the generic adapter
get_adapter_placeholder(kind) ==
  IF kind \in DOMAIN ADAPTER_REGISTRY THEN ADAPTER_REGISTRY[kind]
  ELSE "PlaceholderHeadlessAdapter"

get_adapter(kind) ==
  IF kind \in DOMAIN ADAPTER_REGISTRY THEN ADAPTER_REGISTRY[kind]
  ELSE "GenericHTMLAdapter"

requires_headless(kind) == kind \in HEADLESS_ADAPTERS

\* adapter.parse(html): dispatch on the adapter class
parse(adapter, p) ==
  CASE adapter = "GenericHTMLAdapter" -> GenericHTMLAdapter_parse(p)
    [] adapter = "BorealAdapter" -> BorealAdapter_parse(p)
    [] adapter = "DiamondPeakAdapter" -> DiamondPeakAdapter_parse(p)
    [] adapter = "HomewoodAdapter" -> HomewoodAdapter_parse(p)
    [] adapter = "MtRoseAdapter" -> MtRoseAdapter_parse(p)
    [] adapter = "PalisadesAdapter" -> PalisadesAdapter_parse(p)
    [] adapter = "SierraAtTahoeAdapter" -> SierraAtTahoeAdapter_parse(p)
    [] adapter = "SugarBowlAdapter" -> SugarBowlAdapter_parse(p)
    [] adapter = "TahoeDonnerAdapter" -> TahoeDonnerAdapter_parse(p)
    [] adapter = "VailResortsAdapter" -> VailResortsAdapter_parse(p)
    [] adapter = "PlaceholderHeadlessAdapter" -> PlaceholderHeadlessAdapter_parse(p)

\* ---------------------------------------------------------- weather/nws.py
\* A weather scenario gives the outcome of the two fetch_json calls:
\*   points    "FetchError", or the shape of the points document:
\*             "not_dict" (the JSON value is not an object), "no_properties",
\*             "bad_properties" (properties is not an object), "no_forecast"
\*             (no or empty forecast entry), "bad_forecast" (forecast is not a
\*             string), "ok" (forecast is a URL),
\*   forecast  "FetchError", or the shape of the forecast document:
\*             "not_dict", "no_properties", "bad_properties", "no_periods",
\*             "bad_periods" (a non-empty value that is not a list),
\*             "bad_period" (the first period is not an object), "ok",
\*   period    the first period, when forecast = "ok":
\*             temp_type    "missing", "num", or "str" (a non-numeric text),
\*             temperature  the number, when temp_type = "num",
\*             unit         None (absent), "F" or "C",
\*             wind         "missing", "nonstr" (a number), or "text" with the
\*                          figures lo, hi ("lo to hi mph") and gust found,
\*             shortForecast, name   Optional texts.
Period(temp_type, temp, unit, wind, lo, hi, gust, short, name) ==
  [temp_type |-> temp_type, temperature |-> temp, unit |-> unit, wind |-> wind, lo |-> lo, hi |-> hi,
   gust |-> gust, shortForecast |-> short, name |-> name]

NWS_POINTS_URL(lat, lon) == <<"https://api.weather.gov/points", lat, lon>>

ForecastUrl(lat, lon) == <<"https://api.weather.gov/gridpoints/forecast", lat, lon>>

\* (wind_mph, wind_gust_mph) of a windSpeed text
_parse_wind(per) ==
  IF per.wind = "missing" THEN <<None, None>>
  ELSE <<IF per.lo = None THEN None
         ELSE IF per.hi # None THEN per.hi ELSE per.lo,
         per.gust>>

fetch_weather(lat, lon, wx) ==
  LET points_url == NWS_POINTS_URL(lat, lon)
      weather == Weather
  IN
  IF wx.points = "FetchError" THEN Return(<<weather, Some(points_url), None>>)
  ELSE IF wx.points \in {"not_dict", "bad_properties"} THEN Raise("Exception")
  ELSE IF wx.points \in {"no_properties", "no_forecast"}
  THEN Return(<<weather, Some(points_url), None>>)
  ELSE IF wx.points = "bad_forecast" THEN Raise("Exception")
  ELSE
    LET forecast_url == Some(ForecastUrl(lat, lon)) IN
    IF wx.forecast = "FetchError"
    THEN Return(<<weather, Some(points_url), forecast_url>>)
    ELSE IF wx.forecast \in {"not_dict", "bad_properties"} THEN Raise("Exception")
    ELSE IF wx.forecast \in {"no_properties", "no_periods"}
    THEN Return(<<weather, Some(points_url), forecast_url>>)
    ELSE IF wx.forecast \in {"bad_periods", "bad_period"} THEN Raise("Exception")
    ELSE
      LET per == wx.period
          temp == per.temperature
          wind == _parse_wind(per)
      IN
      IF per.temp_type = "str" THEN Raise("Exception")
      ELSE IF per.wind = "nonstr" THEN Raise("Exception")
      ELSE Return(<<
        [weather EXCEPT
           !.temp_f = IF per.temp_type = "missing" THEN None
                      ELSE IF per.unit = Some("C")
                      THEN Some((temp * 9) \div 5 + 32)
                      ELSE Some(temp),
           !.wind_mph = wind[1],
           !.wind_gust_mph = wind[2],
           !.short_forecast = per.shortForecast,
           !.forecast_period_name = per.name],
        Some(points_url), forecast_url>>)

\* ------------------------------------------------------------ configuration
\* A resort configuration (models.py ResortConfig, enabled entries only)
ResortConfig(slug, kind) ==
  [slug |-> slug, name |-> slug, kind |-> kind, source_url |-> <<"https", slug>>,
   lat |-> 39, lon |-> 120]

Slugs == {"s1", "s2"}

\* the resort lists a run may be configured with: plain and rendered kinds,
\* the placeholder, a kind the registry does not know, two entries that share
\* a slug, and the empty list
Configs ==
  { <<ResortConfig("s1", "generic"), ResortConfig("s2", "palisades")>>,
    <<ResortConfig("s1", "placeholder_headless"), ResortConfig("s2", "unlisted")>>,
    <<ResortConfig("s1", "vail_resorts"), ResortConfig("s1", "tahoe_donner")>>,
    <<>> }

\* ------------------------------------------------------------------ output.py
\* The published per-resort files: store[slug] is None when
\* RESORTS_OUTPUT_DIR/<slug>.json does not exist, else the record it holds.
load_existing_resort(store, slug) == store[slug]

write_resort(store, resort) == [store EXCEPT ![resort.slug] = Some(resort)]

RECURSIVE write_all_outputs(_, _)
write_all_outputs(store, resorts) ==
  IF resorts = <<>> THEN store
  ELSE write_all_outputs(write_resort(store, Head(resorts)), Tail(resorts))

\* -------------------------------------------------------------------- http.py
\* fetch_headless before it touches the cache or the network; net is the
\* outcome of the rendered fetch when the engine is present
fetch_headless(has_playwright, net) ==
  IF ~has_playwright THEN Raise("FetchError") ELSE net

\* -------------------------------------------------------------------- main.py
\* a strategy that falls back to the plain fetch when the engine is missing
fetch_strategy_fallback(kind, has_playwright) ==
  IF requires_headless(kind) /\ has_playwright THEN "headless" ELSE "plain"

\* lines 56-64: which fetch process_resort performs
fetch_strategy(kind, has_playwright) ==
  IF requires_headless(kind)
  THEN IF ~has_playwright THEN "skip" ELSE "headless"
  ELSE "plain"

\* `if result:` in place of `if result and result.success:`
fold_result_any(stale, result, existing) ==
  IF result # None
  THEN [stale |-> stale, ops |-> Val(result).ops, snow |-> Val(result).snow]
  ELSE [stale |-> stale, ops |-> Operations, snow |-> Snow]

\* lines 72-88: folding the adapter outcome (None when html is None) into
\* (stale, ops, snow); existing is load_existing_resort(slug)
fold_result(stale, result, existing) ==
  IF result # None /\ Val(result).success
  THEN [stale |-> stale, ops |-> Val(result).ops, snow |-> Val(result).snow]
  ELSE IF result # None
  THEN IF existing # None
       THEN [stale |-> TRUE, ops |-> Val(existing).ops, snow |-> Val(existing).snow]
       ELSE [stale |-> TRUE, ops |-> Operations, snow |-> Snow]
  ELSE [stale |-> stale, ops |-> Operations, snow |-> Snow]

\* a handler that marks the record stale only when nothing is carried forward
on_fetch_error_fresh(existing) ==
  IF existing # None
  THEN [stale |-> FALSE, ops |-> Val(existing).ops, snow |-> Val(existing).snow]
  ELSE [stale |-> TRUE, ops |-> Operations, snow |-> Snow]

\* lines 90-98: the FetchError handler
on_fetch_error(existing) ==
  IF existing # None
  THEN [stale |-> TRUE, ops |-> Val(existing).ops, snow |-> Val(existing).snow]
  ELSE [stale |-> TRUE, ops |-> Operations, snow |-> Snow]

\* lines 56-64 and the `except FetchError` of line 90: the acquisition of the
\* markup.  net is the outcome of the fetch of the source URL.
acquire(cfg, has_playwright, net) ==
  LET strategy == fetch_strategy(cfg.kind, has_playwright)
      got == CASE strategy = "skip" -> Return(None)
               [] strategy = "headless" -> fetch_headless(has_playwright, net)
               [] strategy = "plain" -> net
  IN [strategy |-> strategy,
      fetch_failed |-> got.raised = "FetchError",
      html |-> IF strategy = "skip" \/ got.raised = "FetchError" THEN None
               ELSE Some(got.value)]

\* lines 66-70: `if html:` adapter = get_adapter(kind); result = adapter.parse(html)
interpret(cfg, html) ==
  LET parsed == IF html = None THEN Return(ParseResult)
                ELSE parse(get_adapter(cfg.kind), Val(html))
  IN [adapter |-> IF html = None THEN None ELSE Some(get_adapter(cfg.kind)),
      parse_raised |-> html # None /\ parsed.raised # "no",
      result |-> IF html = None \/ parsed.raised # "no" THEN None
                 ELSE Some(parsed.value)]

\* lines 72-98: the facts of the record; f is the acquisition, p the
\* interpretation; loads tells whether load_existing_resort is called
carry(cfg, store, f, p) ==
  LET loads == f.fetch_failed \/ (p.result # None /\ ~Val(p.result).success)
      existing == IF loads THEN load_existing_resort(store, cfg.slug) ELSE None
  IN [loads |-> loads,
      facts |-> IF f.fetch_failed THEN on_fetch_error(existing)
                ELSE fold_result(f.strategy = "skip", p.result, existing)]

\* the calls process_resort makes, in order
calls_made(cfg, f, p, loads) ==
  (CASE f.strategy = "skip" -> <<>>
     [] f.strategy = "headless" -> << <<"fetch_headless", cfg.source_url>> >>
     [] f.strategy = "plain" -> << <<"fetch", cfg.source_url>> >>)
  \o (IF f.html # None THEN << <<"parse", cfg.source_url>> >> ELSE <<>>)
  \o (IF loads THEN << <<"load_existing_resort", cfg.source_url>> >> ELSE <<>>)
  \o (IF p.parse_raised THEN <<>> ELSE << <<"fetch_weather", cfg.source_url>> >>)

\* lines 100-122: the weather lookup w and the record.  The value is the
\* call's outcome (raised, rec) together with a trace of what it did: the
\* calls made, the markup and the adapter outcome.
build(cfg, now, f, p, c, w) ==
  IF p.parse_raised \/ w.raised # "no"
  THEN [raised |-> "Exception", rec |-> None,
        calls |-> calls_made(cfg, f, p, c.loads), html |-> f.html,
        adapter |-> p.adapter, result |-> p.result]
  ELSE [raised |-> "no",
        rec |-> Some(ResortConditions(
                  cfg.slug, cfg.name, now, c.facts.stale,
                  Sources(cfg.source_url, w.value[2], w.value[3]),
                  c.facts.ops, c.facts.snow, w.value[1])),
        calls |-> calls_made(cfg, f, p, c.loads), html |-> f.html,
        adapter |-> p.adapter, result |-> p.result]

\* process_resort from the carry-forward on, p being the interpretation
after_parse(cfg, wx, store, now, f, p) ==
  build(cfg, now, f, p, carry(cfg, store, f, p),
        fetch_weather(cfg.lat, cfg.lon, wx))

\* process_resort from the adapter call on, f being the acquisition
after_acquire(cfg, wx, store, now, f) ==
  after_parse(cfg, wx, store, now, f, interpret(cfg, f.html))

\* process_resort(resort_config).  net is the outcome of the fetch of the
\* source URL, wx the weather scenario, store the published files, now the
\* clock.
process_resort(cfg, has_playwright, net, wx, store, now) ==
  after_acquire(cfg, wx, store, now, acquire(cfg, has_playwright, net))

\* a handler that logs the exception and appends nothing
update_step_skip(results, config, out, now) ==
  IF out.raised = "no" THEN Append(results, Val(out.rec)) ELSE results

\* lines 140-152 of update_command: the per-resort try / except Exception
update_step(results, config, out, now) ==
  IF out.raised = "no" THEN Append(results, Val(out.rec))
  ELSE Append(results,
         ResortConditions(config.slug, config.name, now, TRUE,
                          Sources(config.source_url, None, None),
                          Operations, Snow, Weather))

\* =========================================================================
\* http.py: the fetch layer.  Time is counted in ticks of half a second.  A
\* URL is [host, path]; a body is [json, v, rendered]: whether it is JSON
\* text, the version of the content the server sent, and whether a browser
\* rendered it.  The fetch-layer state is s = [clock, cache, table]: the
\* value of time.time(), the files of CACHE_DIR (cache path -> [text,
\* st_mtime]) and _last_request_time.  A call's environment is e = [script,
\* v, disk]: the answer of the transport to each attempt ("200", "200_json",
\* "4xx", "5xx", "err"), the version served, and whether the cache file can
\* be written ("ok", "fail").  Each call returns [out, clock, cache, table,
\* sent, steps, slept]: its outcome, the state it leaves, the start times
\* of its network calls, the helpers it called, the time _rate_limit slept.
\* =========================================================================
\* config.py, in ticks
RATE_LIMIT_DELAY == 3

MAX_RETRIES == 3

RETRY_BACKOFF_BASE == 2

CONDITIONS_CACHE_TTL == 1800

NWS_CACHE_TTL == 7200

\* the length of the UTC day of strftime("%Y%m%d"), in ticks
Day == 172800

\* urlparse(url).netloc
urlparse_netloc(url) == url.host

\* lines 45-50; the 16 hex digits of the md5 tell the URLs of the model apart
_get_cache_path(url, cache_key_suffix, t) ==
  [date_key |-> t \div Day, url_hash |-> url, suffix |-> cache_key_suffix]

\* lines 53-66, for a cache file that can be read
_read_cache(files, cache_path, ttl_seconds, t) ==
  IF cache_path \notin DOMAIN files THEN None
  ELSE IF t - files[cache_path].st_mtime > ttl_seconds THEN None
  ELSE Some(files[cache_path].text)

\* _write_cache without its try / except
_write_cache_raising(files, cache_path, content, t, disk) ==
  IF disk = "ok"
  THEN [raised |-> "no",
        files |-> (cache_path :> [text |-> content, st_mtime |-> t]) @@ files]
  ELSE [raised |-> "Exception", files |-> files]

\* lines 69-75: the write, at time t; an exception is logged and dropped
_write_cache(files, cache_path, content, t, disk) ==
  IF disk = "ok"
  THEN [raised |-> "no",
        files |-> (cache_path :> [text |-> content, st_mtime |-> t]) @@ files]
  ELSE [raised |-> "no", files |-> files]

\* _last_request_time.get(host, 0)
last_request(table, host) == IF host \in DOMAIN table THEN table[host] ELSE 0

\* lines 78-90, called at time t
_rate_limit(table, url, t) ==
  LET host == urlparse_netloc(url)
      elapsed == t - last_request(table, host)
      sleep_time == IF elapsed < RATE_LIMIT_DELAY THEN RATE_LIMIT_DELAY - elapsed
                    ELSE 0
  IN [slept |-> sleep_time, clock |-> t + sleep_time,
      table |-> (host :> (t + sleep_time)) @@ table]

\* 2 to the power n
RECURSIVE Pow2(_)
Pow2(n) == IF n <= 0 THEN 1 ELSE 2 * Pow2(n - 1)

\* wait_exponential(multiplier=RETRY_BACKOFF_BASE, min=1, max=30) after the
\* attempt of the given number, in ticks
wait_exponential(attempt_number) ==
  LET result == 2 * RETRY_BACKOFF_BASE * Pow2(attempt_number - 1)
      capped == IF result < 60 THEN result ELSE 60
  IN IF capped < 2 THEN 2 ELSE capped

\* an attempt that raises only for a transport error
attempt_raises_error_only(answer) == answer = "err"

\* an attempt that raises for every error status
attempt_raises_any_status(answer) == answer \in {"err", "4xx", "5xx"}

\* lines 106-110: requests.get raises a RequestException (a transport
\* error), or the response is a 5xx and the function raises one
attempt_raises(answer) == answer \in {"err", "5xx"}

\* one attempt more than stop_after_attempt(MAX_RETRIES)
stop_after_attempt_late(attempt_number) == attempt_number >= MAX_RETRIES + 1

\* stop=stop_after_attempt(MAX_RETRIES)
stop_after_attempt(attempt_number) == attempt_number >= MAX_RETRIES

\* the answer of the transport to the k-th attempt of a call: the script's
\* k-th entry, its last entry from then on
answer_of(script, k) == IF k <= Len(script) THEN script[k] ELSE script[Len(script)]

\* lines 98-112: _fetch_with_retry from attempt k on, started at time t; sent
\* holds the start times of the attempts made so far
RECURSIVE retry_loop(_, _, _, _)
retry_loop(script, k, t, sent) ==
  IF attempt_raises(answer_of(script, k))
  THEN IF stop_after_attempt(k)
       THEN [raised |-> "RequestException", response |-> None,
             sent |-> Append(sent, t), clock |-> t + Latency]
       ELSE retry_loop(script, k + 1, t + Latency + wait_exponential(k),
                       Append(sent, t))
  ELSE [raised |-> "no", response |-> Some(answer_of(script, k)),
        sent |-> Append(sent, t), clock |-> t + Latency]

_fetch_with_retry(script, t) == retry_loop(script, 1, t, <<>>)

\* response.text of a 2xx response
response_text(answer, v) == [json |-> answer = "200_json", v |-> v, rendered |-> FALSE]

\* response.json() and json.loads(text)
json_loads(text) ==
  IF text.json THEN Return(<<"data", text.v>>) ELSE Raise("JSONDecodeError")

\* json.dumps(data)
json_dumps(data) == [json |-> TRUE, v |-> data[2], rendered |-> FALSE]

\* the helpers a call has used when it reaches the network
steps_to_network(r) ==
  IF r.use_cache THEN <<"_read_cache", "_rate_limit">> ELSE <<"_rate_limit">>

\* a call that ends without having touched the network
no_network(s, out, steps) ==
  [out |-> out, clock |-> s.clock, cache |-> s.cache, table |-> s.table,
   sent |-> <<>>, steps |-> steps, slept |-> 0]

\* a call that raises FetchError after its network calls
fetch_error(s, rl, got, steps) ==
  [out |-> Raise("FetchError"), clock |-> got.clock, cache |-> s.cache,
   table |-> rl.table, sent |-> got.sent, steps |-> steps, slept |-> rl.slept]

\* the end of a call whose content was fetched: w is the outcome of
\* _write_cache, or of no write (use_cache false)
fetched(value, rl, got, w, steps) ==
  [out |-> IF w.raised = "no" THEN Return(value) ELSE Raise(w.raised),
   clock |-> got.clock, cache |-> w.files, table |-> rl.table,
   sent |-> got.sent, steps |-> steps, slept |-> rl.slept]

\* lines 154-167 of fetch: got is the outcome of _fetch_with_retry
fetch_response(s, r, e, cache_path, rl, got) ==
  IF got.raised # "no" \/ Val(got.response) = "4xx"
  THEN fetch_error(s, rl, got, steps_to_network(r))
  ELSE IF r.use_cache
  THEN fetched(response_text(Val(got.response), e.v), rl, got,
               _write_cache(s.cache, cache_path,
                            response_text(Val(got.response), e.v),
                            got.clock, e.disk),
               <<"_read_cache", "_rate_limit", "_write_cache">>)
  ELSE fetched(response_text(Val(got.response), e.v), rl, got,
               [raised |-> "no", files |-> s.cache], steps_to_network(r))

\* lines 145-156 of fetch: rl is the outcome of _rate_limit
fetch_network(s, r, e, cache_path, rl) ==
  fetch_response(s, r, e, cache_path, rl, _fetch_with_retry(e.script, rl.clock))

\* lines 136-146 of fetch: cached is the outcome of the cache read
fetch_cached(s, r, e, cache_path, cached) ==
  IF cached # None THEN no_network(s, Return(Val(cached)), <<"_read_cache">>)
  ELSE fetch_network(s, r, e, cache_path, _rate_limit(s.table, r.url, s.clock))

\* the cache lookup of fetch and of fetch_headless (`if use_cache:`)
lookup(s, r) ==
  IF r.use_cache
  THEN _read_cache(s.cache, _get_cache_path(r.url, r.cache_key_suffix, s.clock),
                   r.ttl_seconds, s.clock)
  ELSE None

\* fetch(url, ttl_seconds, cache_key_suffix, use_cache), lines 115-167
http_fetch(s, r, e) ==
  fetch_cached(s, r, e, _get_cache_path(r.url, r.cache_key_suffix, s.clock),
               lookup(s, r))

\* lines 203-217 of fetch_json: got is the outcome of _fetch_with_retry
fetch_json_response(s, r, e, cache_path, rl, got) ==
  IF got.raised # "no" \/ Val(got.response) = "4xx"
     \/ json_loads(response_text(Val(got.response), e.v)).raised # "no"
  THEN fetch_error(s, rl, got, <<"_read_cache", "_rate_limit">>)
  ELSE fetched(json_loads(response_text(Val(got.response), e.v)).value, rl, got,
               _write_cache(s.cache, cache_path,
                            json_dumps(json_loads(
                              response_text(Val(got.response), e.v)).value),
                            got.clock, e.disk),
               <<"_read_cache", "_rate_limit", "_write_cache">>)

\* lines 195-205 of fetch_json
fetch_json_network(s, r, e, cache_path, rl) ==
  fetch_json_response(s, r, e, cache_path, rl,
                      _fetch_with_retry(e.script, rl.clock))

\* lines 184-196 of fetch_json: a cached text that is not JSON is refetched
fetch_json_cached(s, r, e, cache_path, cached) ==
  IF cached # None /\ json_loads(Val(cached)).raised = "no"
  THEN no_network(s, Return(json_loads(Val(cached)).value), <<"_read_cache">>)
  ELSE fetch_json_network(s, r, e, cache_path,
                          _rate_limit(s.table, r.url, s.clock))

\* fetch_json(url, ttl_seconds), lines 170-217
http_fetch_json(s, r, e) ==
  fetch_json_cached(s, r, e, _get_cache_path(r.url, "_json", s.clock),
                    _read_cache(s.cache, _get_cache_path(r.url, "_json", s.clock),
                                r.ttl_seconds, s.clock))

\* lines 262-285 of fetch_headless: the browser loads the page at time t;
\* page.goto raises for a transport error only, and a loaded page is given
\* wait_for_timeout(1000) to finish rendering
browser(script, t) ==
  IF answer_of(script, 1) = "err"
  THEN [raised |-> "Exception", response |-> None, sent |-> <<t>>,
        clock |-> t + Latency]
  ELSE [raised |-> "no", response |-> Some(answer_of(script, 1)),
        sent |-> <<t>>, clock |-> t + Latency + 2]

\* page.content()
page_content(v) == [json |-> FALSE, v |-> v, rendered |-> TRUE]

\* lines 287-294 of fetch_headless: an exception of the write, were there
\* one, is inside the try and becomes a FetchError
headless_written(s, rl, got, content, w) ==
  IF w.raised # "no"
  THEN fetch_error(s, rl, got, <<"_read_cache", "_rate_limit", "_write_cache">>)
  ELSE fetched(content, rl, got, w, <<"_read_cache", "_rate_limit", "_write_cache">>)

\* lines 262-294 of fetch_headless: got is the outcome of the browser
headless_response(s, r, e, cache_path, rl, got) ==
  IF got.raised # "no" THEN fetch_error(s, rl, got, steps_to_network(r))
  ELSE IF r.use_cache
  THEN headless_written(s, rl, got, page_content(e.v),
                        _write_cache(s.cache, cache_path, page_content(e.v),
                                     got.clock, e.disk))
  ELSE fetched(page_content(e.v), rl, got,
               [raised |-> "no", files |-> s.cache], steps_to_network(r))

\* lines 259-264 of fetch_headless
headless_network(s, r, e, cache_path, rl) ==
  headless_response(s, r, e, cache_path, rl, browser(e.script, rl.clock))

\* lines 250-260 of fetch_headless
headless_cached(s, r, e, cache_path, cached) ==
  IF cached # None THEN no_network(s, Return(Val(cached)), <<"_read_cache">>)
  ELSE headless_network(s, r, e, cache_path,
                        _rate_limit(s.table, r.url, s.clock))

\* a fetch_headless that falls back to the plain fetch without an engine
http_fetch_headless_fallback(s, has_playwright, r, e) ==
  IF ~has_playwright THEN http_fetch(s, r, e)
  ELSE headless_cached(s, r, e,
                       _get_cache_path(r.url, r.cache_key_suffix, s.clock),
                       lookup(s, r))

\* fetch_headless(url, ttl_seconds, cache_key_suffix, use_cache), lines 220-294
http_fetch_headless(s, has_playwright, r, e) ==
  IF ~has_playwright THEN no_network(s, Raise("FetchError"), <<>>)
  ELSE headless_cached(s, r, e,
                       _get_cache_path(r.url, r.cache_key_suffix, s.clock),
                       lookup(s, r))

\* the call r = [fn, url, ttl_seconds, cache_key_suffix, use_cache]
http_call(s, has_playwright, r, e) ==
  CASE r.fn = "fetch" -> http_fetch(s, r, e)
    [] r.fn = "fetch_json" -> http_fetch_json(s, r, e)
    [] r.fn = "fetch_headless" -> http_fetch_headless(s, has_playwright, r, e)

\* =========================================================================
\* The orchestrator as a state machine: a sequence of update runs, each a
\* fresh process that imports http.py (which fixes HAS_PLAYWRIGHT), walks the
\* configured resorts and then writes the output files.
\* =========================================================================
VARIABLES
  HAS_PLAYWRIGHT,  \* http.py:34-38, fixed when the process starts
  resorts_config,  \* get_enabled_resorts()
  store,           \* the published per-resort files
  results,         \* update_command's results list
  i,               \* position of the for loop in resorts_config
  pc,              \* "idle" (no run), "loop", "write"
  now,             \* the clock: the number of the current run
  last,            \* trace of the latest process_resort call of this run
  runlog,          \* per processed resort: did acquisition fail, did it raise
  lkg,             \* per slug: the facts published by the latest run in which
                   \* the resort was acquired and parsed successfully
  call,            \* the latest direct call of parse or fetch_weather
  clock,           \* time.time(), in ticks of half a second
  cache,           \* the files of CACHE_DIR
  _last_request_time,  \* http.py:42
  wire,            \* per host: the start of the latest network call to it
  req              \* the latest call of the fetch layer and its result

vars == <<HAS_PLAYWRIGHT, resorts_config, store, results, i, pc, now, last,
          runlog, lkg, call, clock, cache, _last_request_time, wire, req>>

\* the state of the fetch layer
http == <<clock, cache, _last_request_time, wire, req>>

\* the pages the source URL may serve in a run
PageA == PageOf(Some(1), Some(2), Some(2), Some(2), None, "none", Some(6), Some(48))

PageTrailsOnly == PageOf(None, None, Some(0), Some(2), None, "none", None, None)

PageEmpty == PageOf(None, None, None, None, None, "none", None, None)

PageFault == [PageEmpty EXCEPT !.fault = "body"]

OrchPages == {PageA, PageTrailsOnly, PageEmpty, PageFault}

\* the outcomes of fetching the source URL
NetOutcomes == {Raise("FetchError")} \cup {Return(p) : p \in OrchPages}

PeriodOK == Period("num", 20, Some("F"), "text", Some(10), None, None,
                   Some("Sunny"), Some("Today"))

WxOK == [points |-> "ok", forecast |-> "ok", period |-> PeriodOK]

WxOf(points, forecast) == [points |-> points, forecast |-> forecast, period |-> PeriodOK]

\* the weather scenarios of a run: success, a fetch failure at either step,
\* a missing forecast URL, an empty and a malformed forecast payload
WxScenarios ==
  { WxOK,
    WxOf("FetchError", "ok"), WxOf("no_forecast", "ok"),
    WxOf("ok", "FetchError"), WxOf("ok", "no_periods"),
    WxOf("ok", "bad_period") }

\* every weather scenario, for the checks of fetch_weather on its own
PointsShapes == {"FetchError", "not_dict", "no_properties", "bad_properties",
                 "no_forecast", "bad_forecast", "ok"}

ForecastShapes == {"FetchError", "not_dict", "no_properties", "bad_properties",
                   "no_periods", "bad_periods", "bad_period", "ok"}

Periods ==
  { Period(tt, 20, u, w, lo, hi, gust, Some("Sunny"), Some("Today")) :
      tt \in {"missing", "num", "str"}, u \in {None, Some("F"), Some("C")},
      w \in {"missing", "nonstr", "text"}, lo \in {None, Some(10)},
      hi \in {None, Some(20)}, gust \in {None, Some(25)} }

WxAll == [points : PointsShapes, forecast : ForecastShapes, period : Periods]

\* the kinds a configuration may name: the registered ones and one that is not
Kinds == DOMAIN ADAPTER_REGISTRY \cup {"unlisted"}

NoCall == [fn |-> "none"]

NoFacts == [ops |-> Operations, snow |-> Snow]

FactsOf(rec) == [ops |-> rec.ops, snow |-> rec.snow]

NoFiles == [x \in {} |-> None]

HttpIdle ==
  /\ clock = Day
  /\ cache = NoFiles
  /\ _last_request_time = NoFiles
  /\ wire = NoFiles
  /\ req = [valid |-> FALSE, n |-> 0]

InitOrch ==
  /\ HAS_PLAYWRIGHT = FALSE
  /\ store = [s \in Slugs |-> None]
  /\ results = <<>>
  /\ i = 1
  /\ pc = "idle"
  /\ now = 0
  /\ last = [valid |-> FALSE]
  /\ runlog = <<>>
  /\ lkg = [s \in Slugs |-> NoFacts]

Init ==
  /\ InitOrch
  /\ resorts_config \in Configs
  /\ call = NoCall
  /\ HttpIdle

\* A new process: the import of http.py, then update_command up to the loop
StartRun ==
  /\ pc = "idle"
  /\ now < MaxRuns
  /\ resorts_config # <<>>
  /\ HAS_PLAYWRIGHT' \in BOOLEAN
  /\ now' = now + 1
  /\ results' = <<>>
  /\ i' = 1
  /\ pc' = "loop"
  /\ last' = [valid |-> FALSE]
  /\ runlog' = <<>>
  /\ UNCHANGED <<resorts_config, store, lkg, call, http>>

\* update_command with no enabled resort: logs an error and returns 1
NoResorts ==
  /\ pc = "idle"
  /\ now < MaxRuns
  /\ resorts_config = <<>>
  /\ HAS_PLAYWRIGHT' \in BOOLEAN
  /\ now' = now + 1
  /\ UNCHANGED <<resorts_config, store, results, i, pc, last, runlog, lkg, call, http>>

\* the effect of one iteration on results, out being the outcome of
\* process_resort(config); last and runlog record what the iteration did
\* (emitted: the record it appended, None if it appended nothing)
Iterate(config, net, wx, out) ==
  /\ results' = update_step(results, config, out, now)
  /\ last' = [valid |-> TRUE, config |-> config, net |-> net, wx |-> wx,
              prev |-> store[config.slug], raised |-> out.raised # "no",
              calls |-> out.calls, html |-> out.html,
              adapter |-> out.adapter, result |-> out.result,
              failed |-> ~(out.result # None /\ Val(out.result).success),
              emitted |-> IF Len(results') > Len(results)
                          THEN results'[Len(results')] ELSE None]
  /\ runlog' = Append(runlog,
                      [failed |-> ~(out.result # None /\ Val(out.result).success),
                       raised |-> out.raised # "no"])

\* an iteration that also writes the record it produced to its output file
ProcessResortWriteThrough ==
  /\ pc = "loop"
  /\ i <= Len(resorts_config)
  /\ \E net \in NetOutcomes, wx \in WxScenarios :
       Iterate(resorts_config[i], net, wx,
               process_resort(resorts_config[i], HAS_PLAYWRIGHT, net, wx,
                              store, now))
  /\ store' = write_all_outputs(store, results')
  /\ i' = i + 1
  /\ pc' = IF i + 1 > Len(resorts_config) THEN "write" ELSE "loop"
  /\ UNCHANGED <<HAS_PLAYWRIGHT, resorts_config, now, lkg, call, http>>

\* One iteration of the loop of update_command
ProcessResort ==
  /\ pc = "loop"
  /\ i <= Len(resorts_config)
  /\ \E net \in NetOutcomes, wx \in WxScenarios :
       Iterate(resorts_config[i], net, wx,
               process_resort(resorts_config[i], HAS_PLAYWRIGHT, net, wx,
                              store, now))
  /\ i' = i + 1
  /\ pc' = IF i + 1 > Len(resorts_config) THEN "write" ELSE "loop"
  /\ UNCHANGED <<HAS_PLAYWRIGHT, resorts_config, store, now, lkg, call, http>>

\* the index of the entry of the run whose record is the one published for
\* slug s (write_all_outputs writes in order, the last entry wins); 0 if none
PublishedIndex(s) ==
  LET idx == {k \in 1..Len(resorts_config) : resorts_config[k].slug = s}
  IN IF idx = {} THEN 0 ELSE CHOOSE k \in idx : \A m \in idx : m <= k

\* update_command after the loop: write_all_outputs(results, summary)
WriteOutputs ==
  /\ pc = "write"
  /\ store' = write_all_outputs(store, results)
  /\ lkg' = [s \in Slugs |->
               IF PublishedIndex(s) # 0 /\ ~runlog[PublishedIndex(s)].failed
               THEN FactsOf(Val(store'[s])) ELSE lkg[s]]
  /\ pc' = "idle"
  /\ UNCHANGED <<HAS_PLAYWRIGHT, resorts_config, results, i, now, last, runlog, call, http>>

Next == StartRun \/ NoResorts \/ ProcessResort \/ WriteOutputs

Spec == Init /\ [][Next]_vars

\* =========================================================================
\* The adapters on their own: parse applied to any page by any kind's adapter
\* =========================================================================
orch == <<HAS_PLAYWRIGHT, resorts_config, store, results, i, pc, now, last,
          runlog, lkg>>

InitParse ==
  /\ InitOrch
  /\ HttpIdle
  /\ resorts_config = <<>>
  /\ \E kind \in Kinds, p \in Pages \cup {TestPage} :
       call = [fn |-> "parse", kind |-> kind, page |-> p, done |-> FALSE,
               adapter |-> "", out |-> Raise("pending")]

\* adapter = get_adapter(kind); result = adapter.parse(html)
ParseCall ==
  /\ call.fn = "parse"
  /\ ~call.done
  /\ call' = [call EXCEPT !.done = TRUE,
                          !.adapter = get_adapter(call.kind),
                          !.out = parse(get_adapter(call.kind), call.page)]
  /\ UNCHANGED <<orch, http>>

NextParse == ParseCall

SpecParse == InitParse /\ [][NextParse]_vars

\* =========================================================================
\* parse_inches on its own, over every short text
\* =========================================================================
Chars == {"6", "8", ".", " ", "-", "endash", "quote", "n"}

RECURSIVE Texts(_)
Texts(n) ==
  IF n = 0 THEN {<<>>}
  ELSE LET shorter == Texts(n - 1)
       IN shorter \cup {Append(t, c) : t \in shorter, c \in Chars}

\* the texts of test_parse_inches_simple, _range and _invalid, and "6 IN"
TestInches ==
  {<<"6", "quote">>,
   <<"6", " ", "i", "n">>,
   <<"6", " ", "i", "n", "c", "h", "e", "s">>,
   <<"1", "2", ".", "5", " ", "i", "n", "c", "h", "e", "s">>,
   <<"6", "-", "8", "quote">>,
   <<"6", " ", "-", " ", "8", " ", "i", "n", "c", "h", "e", "s">>,
   <<"1", "0", "endash", "1", "5">>,
   <<"n", "o", "n", "e">>,
   <<"6", " ", "I", "N">>}

InitInches ==
  /\ InitOrch
  /\ HttpIdle
  /\ resorts_config = <<>>
  /\ \E text \in {None} \cup {Some(t) : t \in Texts(MaxLen) \cup TestInches} :
       call = [fn |-> "parse_inches", text |-> text, done |-> FALSE,
               out |-> None]

\* BaseAdapter.parse_inches(text)
InchesCall ==
  /\ call.fn = "parse_inches"
  /\ ~call.done
  /\ call' = [call EXCEPT !.done = TRUE, !.out = parse_inches(call.text)]
  /\ UNCHANGED <<orch, http>>

NextInches == InchesCall

SpecInches == InitInches /\ [][NextInches]_vars

\* =========================================================================
\* DiamondPeakAdapter.parse on its own, over pages that state their snow
\* figures in any order and layout
\* =========================================================================
\* A figure is a fact stated in one layout: the value before the label
\* ('5 Inches 24 hour'), after it ('24 hour: 5 Inches') or after it with no
\* unit ('24 hour: 5').  The values are those of test_parse_conditions.
Facts == {"overnight", "24h", "storm", "base", "season"}

FigureValue(fact) ==
  CASE fact = "overnight" -> 0
    [] fact = "24h" -> 5
    [] fact = "storm" -> 34
    [] fact = "base" -> 16
    [] fact = "season" -> 66

LayoutsOf(fact) ==
  CASE fact \in {"overnight", "24h"} ->
         {"value_first", "label_first", "label_bare"}
    [] fact = "storm" -> {"value_first", "label_first"}
    [] OTHER -> {"label_first"}

Figures ==
  UNION {{[fact |-> f, layout |-> l] : l \in LayoutsOf(f)} : f \in Facts}

LabelOf(fact) ==
  CASE fact = "24h" -> <<H24>>
    [] fact = "storm" -> <<Word("storm"), Word("total")>>
    [] OTHER -> <<Word(fact)>>

PhraseOf(figure) ==
  CASE figure.layout = "value_first" ->
         <<Num(FigureValue(figure.fact)), Word("inches")>> \o LabelOf(figure.fact)
    [] figure.layout = "label_first" ->
         LabelOf(figure.fact) \o <<Num(FigureValue(figure.fact)), Word("inches")>>
    [] figure.layout = "label_bare" ->
         LabelOf(figure.fact) \o <<Num(FigureValue(figure.fact))>>

RECURSIVE TextOf(_)
TextOf(figures) ==
  IF figures = <<>> THEN <<>>
  ELSE PhraseOf(Head(figures)) \o TextOf(Tail(figures))

\* the pages: every sequence of figures of different facts
FigurePages ==
  UNION {{page \in [1..n -> Figures] :
            \A a \in 1..n, b \in 1..n : a # b => page[a].fact # page[b].fact}
         : n \in 0..Cardinality(Facts)}

\* the page of test_parse_conditions
TestFigures ==
  <<[fact |-> "overnight", layout |-> "value_first"],
    [fact |-> "24h", layout |-> "value_first"],
    [fact |-> "storm", layout |-> "value_first"],
    [fact |-> "base", layout |-> "label_first"],
    [fact |-> "season", layout |-> "label_first"]>>

InitDiamondPeak ==
  /\ InitOrch
  /\ HttpIdle
  /\ resorts_config = <<>>
  /\ \E figures \in FigurePages, ph \in {"none", "open"} :
       call = [fn |-> "diamond_peak", figures |-> figures, phrase |-> ph,
               done |-> FALSE, out |-> Raise("pending")]

\* DiamondPeakAdapter().parse(html) on a page without lift or trail rows
DiamondPeakCall ==
  /\ call.fn = "diamond_peak"
  /\ ~call.done
  /\ call' = [call EXCEPT
                !.done = TRUE,
                !.out = DiamondPeakAdapter_parse(
                          DiamondPeakFinds(TextOf(call.figures), None, None,
                                           None, None, call.phrase))]
  /\ UNCHANGED <<orch, http>>

NextDiamondPeak == DiamondPeakCall

SpecDiamondPeak == InitDiamondPeak /\ [][NextDiamondPeak]_vars

\* =========================================================================
\* fetch_weather on its own, over every weather scenario
\* =========================================================================
InitWeather ==
  /\ InitOrch
  /\ HttpIdle
  /\ resorts_config = <<>>
  /\ \E wx \in WxAll :
       call = [fn |-> "fetch_weather", wx |-> wx, done |-> FALSE,
               out |-> Raise("pending")]

WeatherCall ==
  /\ call.fn = "fetch_weather"
  /\ ~call.done
  /\ call' = [call EXCEPT !.done = TRUE, !.out = fetch_weather(39, 120, call.wx)]
  /\ UNCHANGED <<orch, http>>

NextWeather == WeatherCall

SpecWeather == InitWeather /\ [][NextWeather]_vars

\* =========================================================================
\* The fetch layer as a state machine: one process makes a bounded number of
\* calls of fetch, fetch_json and fetch_headless, each some time after the
\* previous one ended.
\* =========================================================================
Url(host, path) == [host |-> host, path |-> path]

ResortUrl == Url("resort.example", "/conditions")

PointsUrl == Url("api.weather.gov", "/points/39,-120")

\* the calls of the program: main.py:62 and 64, nws.py:63 and 74, and a
\* fetch that bypasses the cache
CallOf(fn, url, ttl_seconds, cache_key_suffix, use_cache) ==
  [fn |-> fn, url |-> url, ttl_seconds |-> ttl_seconds,
   cache_key_suffix |-> cache_key_suffix, use_cache |-> use_cache]

Requests ==
  { CallOf("fetch", ResortUrl, CONDITIONS_CACHE_TTL, "", TRUE),
    CallOf("fetch", ResortUrl, CONDITIONS_CACHE_TTL, "", FALSE),
    CallOf("fetch_json", PointsUrl, NWS_CACHE_TTL, "_json", TRUE),
    CallOf("fetch_headless", ResortUrl, CONDITIONS_CACHE_TTL, "_headless", TRUE) }

\* what the transport answers to the attempts of a call: at once; a 4xx; one
\* or two 5xx and then a success; failures for ever
ScriptsOf(ok) ==
  { <<ok>>, <<"4xx">>, <<"5xx", ok>>, <<"5xx", "5xx", ok>>, <<"err", "5xx">> }

\* the environments of a call: the scripts with a working cache directory,
\* and a success at once with a cache file that cannot be written
EnvsOf(r) ==
  LET scripts == CASE r.fn = "fetch" -> ScriptsOf("200")
                   [] r.fn = "fetch_json" -> ScriptsOf("200_json") \cup {<<"200">>}
                   [] r.fn = "fetch_headless" -> {<<"200">>, <<"err">>}
      ok == IF r.fn = "fetch_json" THEN "200_json" ELSE "200"
  IN {[script |-> sc, disk |-> "ok"] : sc \in scripts}
     \cup (IF r.use_cache THEN {[script |-> <<ok>>, disk |-> "fail"]} ELSE {})

\* the time between the end of the previous call and the call: none, the
\* time to live of the call's cache entry, and one tick more
WaitsOf(r) == {0, r.ttl_seconds, r.ttl_seconds + 1}

\* the time at which the process starts: at midnight UTC, one network call
\* before midnight, and such that a call is made one network call before
\* midnight when the entry of the first call has just expired
Starts ==
  { Day, 2 * Day - Latency,
    2 * Day - 2 * Latency - (CONDITIONS_CACHE_TTL + 1) }

InitFetch ==
  /\ HAS_PLAYWRIGHT \in BOOLEAN
  /\ resorts_config = <<>>
  /\ store = [s \in Slugs |-> None]
  /\ results = <<>>
  /\ i = 1
  /\ pc = "idle"
  /\ now = 0
  /\ last = [valid |-> FALSE]
  /\ runlog = <<>>
  /\ lkg = [s \in Slugs |-> NoFacts]
  /\ call = NoCall
  /\ clock \in Starts
  /\ cache = NoFiles
  /\ _last_request_time = NoFiles
  /\ wire = NoFiles
  /\ req = [valid |-> FALSE, n |-> 0]

\* the effect of the call r made at time t in environment e, res being what
\* the call returns; wire keeps, per host, the start of its latest network
\* call, and req the call, the state before it and its result
Effect(r, e, t, res) ==
  /\ clock' = res.clock
  /\ cache' = res.cache
  /\ _last_request_time' = res.table
  /\ wire' = IF res.sent = <<>> THEN wire
             ELSE (urlparse_netloc(r.url) :> res.sent[Len(res.sent)]) @@ wire
  /\ req' = [valid |-> TRUE, n |-> req.n + 1, r |-> r, e |-> e, t |-> t,
             before |-> [clock |-> t, cache |-> cache,
                         table |-> _last_request_time, wire |-> wire],
             res |-> res]

\* one call of the fetch layer; the content served is the call's number
HttpCall ==
  /\ req.n < MaxCalls
  /\ \E r \in Requests :
       \E sd \in EnvsOf(r), dt \in WaitsOf(r) :
         Effect(r, [script |-> sd.script, v |-> req.n + 1, disk |-> sd.disk],
                clock + dt,
                http_call([clock |-> clock + dt, cache |-> cache,
                           table |-> _last_request_time],
                          HAS_PLAYWRIGHT, r,
                          [script |-> sd.script, v |-> req.n + 1,
                           disk |-> sd.disk]))
  /\ UNCHANGED <<orch, call>>

NextFetch == HttpCall

SpecFetch == InitFetch /\ [][NextFetch]_vars

\* =========================================================================
\* _rate_limit called by several workers at once.  The function takes no
\* lock, so its statements interleave; call holds each worker's position:
\* at "line81" before now = time.time(), at "line82" before the lookup and
\* the test, at "line88" in time.sleep, at "line90" before the table is
\* updated, "done" once it has passed and goes on to the network.
\* =========================================================================
Workers == {"w1", "w2"}

InitWorkers ==
  /\ InitOrch
  /\ resorts_config = <<>>
  /\ clock = Day
  /\ cache = NoFiles
  /\ wire = NoFiles
  /\ req = [valid |-> FALSE, n |-> 0]
  /\ _last_request_time \in {NoFiles, "resort.example" :> (Day - 1)}
  /\ \E urls \in [Workers -> {ResortUrl, PointsUrl}] :
       call = [fn |-> "_rate_limit", url |-> urls,
               at |-> [w \in Workers |-> "line81"],
               now |-> [w \in Workers |-> 0],
               wake |-> [w \in Workers |-> 0],
               passed |-> [w \in Workers |-> None]]

\* line 81: now = time.time()
ReadClock(w) ==
  /\ call.fn = "_rate_limit"
  /\ call.at[w] = "line81"
  /\ call' = [call EXCEPT !.at[w] = "line82", !.now[w] = clock]
  /\ UNCHANGED <<orch, clock, cache, _last_request_time, wire, req>>

\* lines 82-88: last = _last_request_time.get(host, 0), elapsed, the test,
\* and the start of time.sleep(RATE_LIMIT_DELAY - elapsed)
ReadTable(w) ==
  /\ call.fn = "_rate_limit"
  /\ call.at[w] = "line82"
  /\ LET last_ == last_request(_last_request_time, urlparse_netloc(call.url[w]))
         elapsed == call.now[w] - last_
     IN call' = IF elapsed < RATE_LIMIT_DELAY
                THEN [call EXCEPT !.at[w] = "line88",
                                  !.wake[w] = clock + (RATE_LIMIT_DELAY - elapsed)]
                ELSE [call EXCEPT !.at[w] = "line90"]
  /\ UNCHANGED <<orch, clock, cache, _last_request_time, wire, req>>

\* line 88: time.sleep returns, not before the time asked for
Wake(w) ==
  /\ call.fn = "_rate_limit"
  /\ call.at[w] = "line88"
  /\ clock >= call.wake[w]
  /\ call' = [call EXCEPT !.at[w] = "line90"]
  /\ UNCHANGED <<orch, clock, cache, _last_request_time, wire, req>>

\* line 90: _last_request_time[host] = time.time(); the caller goes on to
\* the network
Record(w) ==
  /\ call.fn = "_rate_limit"
  /\ call.at[w] = "line90"
  /\ _last_request_time' =
       (urlparse_netloc(call.url[w]) :> clock) @@ _last_request_time
  /\ call' = [call EXCEPT !.at[w] = "done", !.passed[w] = Some(clock)]
  /\ UNCHANGED <<orch, clock, cache, wire, req>>

\* time passes
Tick ==
  /\ call.fn = "_rate_limit"
  /\ clock < Day + MaxTicks
  /\ clock' = clock + 1
  /\ UNCHANGED <<orch, call, cache, _last_request_time, wire, req>>

NextWorkers ==
  \/ \E w \in Workers : ReadClock(w)
  \/ \E w \in Workers : ReadTable(w)
  \/ \E w \in Workers : Wake(w)
  \/ \E w \in Workers : Record(w)
  \/ Tick

SpecWorkers == InitWorkers /\ [][NextWorkers]_vars

\* =========================================================================
\* write_json_atomic on its own.  call.dir is the target's directory: the
\* content of the target path and of the temporary file, each absent or a
\* sequence of the chunks written so far.  Every call into the operating
\* system either succeeds or raises OSError.
\* =========================================================================
\* the values a caller can put in the data: a plain value, a datetime, and
\* an object json cannot encode
Items == {"a", "now", "bad"}

Payloads == {<<>>} \cup {<<x>> : x \in Items}
              \cup {<<x, y>> : x \in Items, y \in Items}

\* DateTimeEncoder.default and the plain encoder: what is written for a value
encode(x) == IF x = "now" THEN "iso" ELSE x

\* data.model_dump(mode="json"): datetimes become strings; a value that
\* cannot be serialised raises
model_dump(data) ==
  IF \E n \in 1..Len(data) : data[n] = "bad"
  THEN Raise("PydanticSerializationError")
  ELSE Return([n \in 1..Len(data) |-> encode(data[n])])

\* the chunks json.dump(json_data, f, indent=2, cls=DateTimeEncoder) hands
\* to f.write, in order
iterencode(json_data) == <<"[">> \o json_data \o <<"]">>

\* f.write(chunk) on a file opened on the target path instead of the
\* temporary file
write_in_place(dir, chunk) ==
  [dir EXCEPT !.target = IF @ = None THEN Some(<<chunk>>)
                         ELSE Some(Val(@) \o <<chunk>>)]

\* f.write(chunk) on the file opened by os.fdopen(fd, "w")
fdopen_write(dir, chunk) ==
  [dir EXCEPT !.temp = Some(Val(@) \o <<chunk>>)]

\* os.replace(temp_path, path)
os_replace(dir) == [target |-> dir.temp, temp |-> None]

\* os.unlink(temp_path)
os_unlink(dir) == [dir EXCEPT !.temp = None]

Finish(outcome) ==
  call' = [call EXCEPT !.at = "done", !.out = Some(outcome)]

Fail(exc) ==
  call' = [call EXCEPT !.at = "line60", !.exc = Some(exc)]

InitWrite ==
  /\ InitOrch
  /\ HttpIdle
  /\ resorts_config = <<>>
  /\ \E model \in BOOLEAN, data \in Payloads,
        before \in {None, Some(<<"[", "]", "\n">>), Some(<<"[", "a", "]", "\n">>)} :
       call = [fn |-> "write_json_atomic", model |-> model, data |-> data,
               before |-> before,
               dir |-> [target |-> before, temp |-> None],
               at |-> "line36", json_data |-> <<>>, k |-> 0, exc |-> None,
               unlink_error |-> FALSE, out |-> None]

\* line 36: path.parent.mkdir(parents=True, exist_ok=True)
Mkdir ==
  /\ call.fn = "write_json_atomic"
  /\ call.at = "line36"
  /\ \/ call' = [call EXCEPT !.at = "line39"]
     \/ Finish(Raise("OSError"))
  /\ UNCHANGED <<orch, http>>

\* lines 39-42: json_data = data.model_dump(mode="json") for a model, data
\* itself otherwise
Dump ==
  /\ call.fn = "write_json_atomic"
  /\ call.at = "line39"
  /\ IF call.model
     THEN LET dumped == model_dump(call.data)
          IN IF dumped.raised # "no"
             THEN Finish(dumped)
             ELSE call' = [call EXCEPT !.at = "line45",
                                       !.json_data = dumped.value]
     ELSE call' = [call EXCEPT !.at = "line45", !.json_data = call.data]
  /\ UNCHANGED <<orch, http>>

\* lines 45-49: tempfile.mkstemp in the target's directory
Mkstemp ==
  /\ call.fn = "write_json_atomic"
  /\ call.at = "line45"
  /\ \/ call' = [call EXCEPT !.at = "line53", !.dir.temp = Some(<<>>)]
     \/ Finish(Raise("OSError"))
  /\ UNCHANGED <<orch, http>>

\* line 53: json.dump writes the next chunk; a value it cannot encode raises
\* TypeError after the chunks before it were written
WriteChunk ==
  /\ call.fn = "write_json_atomic"
  /\ call.at = "line53"
  /\ LET chunks == iterencode(call.json_data)
     IN IF call.k = Len(chunks)
        THEN call' = [call EXCEPT !.at = "line54"]
        ELSE IF chunks[call.k + 1] = "bad"
             THEN Fail("TypeError")
             ELSE \/ call' = [call EXCEPT
                                !.dir = fdopen_write(@, encode(chunks[call.k + 1])),
                                !.k = @ + 1]
                  \/ Fail("OSError")
  /\ UNCHANGED <<orch, http>>

\* line 54 and the end of the with block: f.write("\n"), then close
Newline ==
  /\ call.fn = "write_json_atomic"
  /\ call.at = "line54"
  /\ \/ call' = [call EXCEPT !.dir = fdopen_write(@, "\n"), !.at = "line57"]
     \/ Fail("OSError")
  /\ UNCHANGED <<orch, http>>

\* lines 57-58: os.replace(temp_path, path), then return
Replace ==
  /\ call.fn = "write_json_atomic"
  /\ call.at = "line57"
  /\ \/ call' = [call EXCEPT !.dir = os_replace(@), !.at = "done",
                              !.out = Some(Return(None))]
     \/ Fail("OSError")
  /\ UNCHANGED <<orch, http>>

\* lines 60-66: except Exception: os.unlink(temp_path), an OSError from it
\* is passed over; raise
Cleanup ==
  /\ call.fn = "write_json_atomic"
  /\ call.at = "line60"
  /\ \/ call' = [call EXCEPT !.dir = os_unlink(@), !.at = "done",
                              !.out = Some(Raise(Val(call.exc)))]
     \/ call' = [call EXCEPT !.unlink_error = TRUE, !.at = "done",
                              !.out = Some(Raise(Val(call.exc)))]
  /\ UNCHANGED <<orch, http>>

NextWrite ==
  \/ Mkdir
  \/ Dump
  \/ Mkstemp
  \/ WriteChunk
  \/ Newline
  \/ Replace
  \/ Cleanup

SpecWrite == InitWrite /\ [][NextWrite]_vars

\* =========================================================================
\* Properties of the orchestrator (checked under Spec)
\* =========================================================================
Called(fn) == \E k \in 1..Len(last.calls) : last.calls[k][1] = fn

\* the latest call obtained markup and its adapter outcome was a success
ParsedOK ==
  /\ last.html # None
  /\ last.result # None
  /\ Val(last.result).success

\* C1: whenever live fetch or parse failed for a resort (FetchError, failed
\* adapter outcome, rendering engine unavailable), the record process_resort
\* returns is stale and carries the previous record's ops and snow if a
\* previously published record exists, and the defaults if none exists.
C1_Fallback ==
  (last.valid /\ ~last.raised /\ last.failed) =>
     /\ last.emitted.stale
     /\ (last.prev # None =>
           FactsOf(last.emitted) = FactsOf(Val(last.prev)))
     /\ (last.prev = None => FactsOf(last.emitted) = NoFacts)

\* C2: when a run publishes its records, every resort whose live acquisition
\* or parsing failed in that run is published stale, with the facts published
\* by the latest earlier run that acquired and parsed it (unknown if none).
C2_CarryForward ==
  [][(pc = "write" /\ pc' = "idle") =>
       \A s \in Slugs :
         (PublishedIndex(s) # 0 /\ runlog[PublishedIndex(s)].failed) =>
            /\ Val(store'[s]).stale
            /\ FactsOf(Val(store'[s])) = lkg[s]]_vars

\* C3: update_command holds exactly one record per processed configuration,
\* in configuration order and with its slug; after the loop there is one per
\* enabled configuration; a resort whose process_resort raised got a stale
\* placeholder with unknown facts, and the loop went on.
C3_OneRecordPerResort ==
  /\ (pc \in {"loop", "write"} =>
        /\ Len(results) = i - 1
        /\ Len(runlog) = i - 1)
  /\ ((pc = "write" \/ (pc = "idle" /\ now > 0)) =>
        Len(results) = Len(resorts_config))
  /\ \A k \in 1..Len(results) :
        /\ k <= Len(resorts_config)
        /\ results[k].slug = resorts_config[k].slug
        /\ (runlog[k].raised =>
              /\ results[k].stale
              /\ FactsOf(results[k]) = NoFacts)

C3_Witness ==
  /\ pc = "write"
  /\ Len(runlog) = 2
  /\ runlog[1].raised
  /\ ~runlog[2].raised
  /\ ~results[2].stale

\* C4: when the kind requires rendering and the engine is unavailable, the
\* record is stale and no markup was obtained: neither fetch nor
\* fetch_headless was called for the source URL, and no adapter parsed.
C4_NoMarkupWithoutEngine ==
  (last.valid /\ requires_headless(last.config.kind) /\ ~HAS_PLAYWRIGHT) =>
     /\ last.emitted.stale
     /\ last.html = None
     /\ last.result = None
     /\ ~Called("fetch")
     /\ ~Called("fetch_headless")
     /\ ~Called("parse")

C4_Witness ==
  /\ last.valid
  /\ requires_headless(last.config.kind)
  /\ ~HAS_PLAYWRIGHT
  /\ last.prev # None
  /\ last.net.raised = "no"

\* C5: a record returned by process_resort is not stale exactly when markup
\* was obtained and the adapter outcome was a success, and then its ops and
\* snow are the outcome's; in every other case it is stale.
C5_StaleIffNotParsed ==
  (last.valid /\ ~last.raised) =>
     /\ (last.emitted.stale = FALSE) <=> ParsedOK
     /\ (ParsedOK =>
           /\ last.emitted.ops = Val(last.result).ops
           /\ last.emitted.snow = Val(last.result).snow)
     /\ (~ParsedOK => last.emitted.stale = TRUE)

C5_Witness ==
  /\ last.valid
  /\ ~last.raised
  /\ ParsedOK
  /\ last.emitted.ops # Operations
  /\ last.prev # None
  /\ FactsOf(Val(last.prev)) # FactsOf(last.emitted)

\* the record update_command would hold for the latest resort had the weather
\* lookup succeeded, everything else being the same
WithWeatherOK ==
  LET before == [store EXCEPT ![last.config.slug] = last.prev]
      out == process_resort(last.config, HAS_PLAYWRIGHT, last.net, WxOK,
                            before, now)
  IN update_step(<<>>, last.config, out, now)[1]

\* C6: weather enrichment is attempted for every resort, and a weather failure
\* changes only the weather fields: stale, ops and snow of the resort's record
\* are what they would be had weather succeeded.
C6_WeatherFailureOnlyWeather ==
  last.valid =>
     /\ Called("fetch_weather")
     /\ (last.wx # WxOK =>
           /\ last.emitted.stale = WithWeatherOK.stale
           /\ last.emitted.ops = WithWeatherOK.ops
           /\ last.emitted.snow = WithWeatherOK.snow)

\* C10: an adapter outcome has needs_headless only when the source requires
\* rendering and none was performed: never for markup from fetch_headless.
C10_NeedsHeadlessOnlyUnrendered ==
  (last.valid /\ last.result # None /\ Val(last.result).needs_headless) =>
     /\ requires_headless(last.config.kind)
     /\ ~Called("fetch_headless")

\* =========================================================================
\* Properties of fetch_weather (checked under SpecWeather)
\* =========================================================================
\* the behaviours of the two-step lookup the claim lists: a fetch failure at
\* either step, a points document that lacks or has a malformed properties or
\* forecast entry, a forecast without periods, a first period with missing or
\* wrongly typed fields
ListedBehaviour(wx) ==
  /\ wx.points \in {"FetchError", "no_properties", "bad_properties",
                    "no_forecast", "bad_forecast", "ok"}
  /\ wx.forecast \in {"FetchError", "no_properties", "no_periods", "ok"}

\* C7: fetch_weather never raises; it returns (Weather, points_url,
\* forecast_url), with an empty Weather whenever a fetch failed and
\* forecast_url set only if the location lookup yielded one.
C7_FetchWeatherNeverRaises ==
  (call.fn = "fetch_weather" /\ call.done /\ ListedBehaviour(call.wx)) =>
     /\ call.out.raised = "no"
     /\ ((call.wx.points = "FetchError" \/ call.wx.forecast = "FetchError") =>
           call.out.value[1] = Weather)
     /\ (call.out.value[3] # None => call.wx.points = "ok")

\* =========================================================================
\* Properties of the adapters (checked under SpecParse)
\* =========================================================================
\* C8: for every kind's adapter and every page, parse returns a ParseResult
\* and lets no exception escape; a failure inside the body gives an outcome
\* with success = false and an error message.
C8_ParseNeverRaises ==
  (call.fn = "parse" /\ call.done) =>
     /\ call.out.raised = "no"
     /\ DOMAIN call.out.value = DOMAIN ParseResult
     /\ (call.page.fault = "body" =>
           /\ ~call.out.value.success
           /\ call.out.value.error # None)

C8_Witness ==
  /\ call.fn = "parse"
  /\ call.done
  /\ call.page.fault = "body"
  /\ call.adapter = "VailResortsAdapter"
  /\ call.page.lifts_open # None

\* C9: in every ParseResult an adapter returns, error is present if and only
\* if success is false.
C9_ErrorIffNotSuccess ==
  (call.fn = "parse" /\ call.done /\ call.out.raised = "no") =>
     (call.out.value.error # None <=> ~call.out.value.success)

C9_Witness ==
  /\ call.fn = "parse"
  /\ call.done
  /\ call.out.raised = "no"
  /\ call.page.fault = "none"
  /\ call.adapter = "TahoeDonnerAdapter"
  /\ ~call.out.value.success
  /\ call.out.value.error # None

\* =========================================================================
\* The fetch layer (SpecFetch)
\* =========================================================================
\* the cache files for the URL and suffix of the latest call, before it
EntriesBefore ==
  {p \in DOMAIN req.before.cache :
     p.url_hash = req.r.url /\ p.suffix = req.r.cache_key_suffix}

\* the age of the cache file p at the time of the latest call
AgeBefore(p) == req.t - req.before.cache[p].st_mtime

\* the newest of the cache files of EntriesBefore
NewestBefore ==
  CHOOSE p \in EntriesBefore :
    \A q \in EntriesBefore :
      req.before.cache[q].st_mtime <= req.before.cache[p].st_mtime

\* what a call returns for the body text
Delivered(r, text) ==
  IF r.fn = "fetch_json" THEN json_loads(text).value ELSE text

\* the version of the content a call returned
VersionOf(r, value) == IF r.fn = "fetch_json" THEN value[2] ELSE value.v

\* the latest call got past its cache lookup
Networked ==
  \E k \in 1..Len(req.res.steps) : req.res.steps[k] = "_rate_limit"

\* the answer that is a success for the function called
OkFor(r) == IF r.fn = "fetch_json" THEN "200_json" ELSE "200"

\* C11: a call (use_cache true) made while an entry stored for its URL and
\* suffix by an earlier call is at most ttl old returns the stored body and
\* makes no transport call.
C11_CacheHit ==
  (/\ req.valid
   /\ req.r.use_cache
   /\ \E p \in EntriesBefore : AgeBefore(p) <= req.r.ttl_seconds)
  => /\ req.res.sent = <<>>
     /\ req.res.out =
          Return(Delivered(req.r, req.before.cache[NewestBefore].text))

\* C12: a call that finds its cached entry older than ttl, is answered
\* successfully by the transport and can write the cache makes exactly one
\* transport call, returns the new body, and leaves the cache such that the
\* same call made at once returns the new body without a transport call.
C12_CacheExpiry ==
  (/\ req.valid
   /\ req.r.use_cache
   /\ EntriesBefore # {}
   /\ \A p \in EntriesBefore : AgeBefore(p) > req.r.ttl_seconds
   /\ req.e.script = <<OkFor(req.r)>>
   /\ req.e.disk = "ok")
  => /\ Len(req.res.sent) = 1
     /\ req.res.out.raised = "no"
     /\ VersionOf(req.r, req.res.out.value) = req.e.v
     /\ LET again == http_call([clock |-> clock, cache |-> cache,
                                table |-> _last_request_time],
                               HAS_PLAYWRIGHT, req.r,
                               [req.e EXCEPT !.v = req.e.v + 1])
        IN /\ again.sent = <<>>
           /\ again.out = req.res.out

\* the script of N - 1 responses 5xx and then a success
FailThenOk(N) == [k \in 1..N |-> IF k < N THEN "5xx" ELSE "200"]

\* C13: when the transport answers a fetch with N - 1 responses 5xx and then
\* succeeds, N <= MAX_RETRIES, fetch returns the successful body and makes
\* exactly N transport calls.
C13_RetryOn5xx ==
  \A N \in 1..MAX_RETRIES :
    (/\ req.valid
     /\ req.r.fn = "fetch"
     /\ Networked
     /\ req.e.script = FailThenOk(N))
    => /\ req.res.out = Return(response_text("200", req.e.v))
       /\ Len(req.res.sent) = N

C13_Witness ==
  /\ req.valid
  /\ req.r.fn = "fetch"
  /\ req.e.script = FailThenOk(MAX_RETRIES)
  /\ Len(req.res.sent) = MAX_RETRIES
  /\ req.res.out.raised = "no"

\* C14: when the transport always answers 4xx, fetch and fetch_json make
\* exactly one transport call and raise FetchError.
C14_NoRetryOn4xx ==
  (/\ req.valid
   /\ req.r.fn \in {"fetch", "fetch_json"}
   /\ Networked
   /\ \A k \in 1..MAX_RETRIES : answer_of(req.e.script, k) = "4xx")
  => /\ Len(req.res.sent) = 1
     /\ req.res.out = Raise("FetchError")

C14_Witness ==
  /\ req.valid
  /\ req.r.fn = "fetch_json"
  /\ req.e.script = <<"4xx">>
  /\ Len(req.res.sent) = 1
  /\ req.res.out.raised = "FetchError"

\* C15: when every attempt fails with a transport error or a 5xx, fetch
\* makes exactly MAX_RETRIES transport calls and raises FetchError, and the
\* cache directory is as before the call: nothing written, an expired entry
\* for the URL untouched.
C15_RetryExhaustion ==
  (/\ req.valid
   /\ req.r.fn \in {"fetch", "fetch_json"}
   /\ Networked
   /\ \A k \in 1..MAX_RETRIES : answer_of(req.e.script, k) \in {"err", "5xx"})
  => /\ Len(req.res.sent) = MAX_RETRIES
     /\ req.res.out = Raise("FetchError")
     /\ cache = req.before.cache

C15_Witness ==
  /\ req.valid
  /\ req.r.fn = "fetch"
  /\ req.r.use_cache
  /\ req.e.script = <<"err", "5xx">>
  /\ EntriesBefore # {}
  /\ \A p \in EntriesBefore : AgeBefore(p) > req.r.ttl_seconds
  /\ Len(req.res.sent) = MAX_RETRIES
  /\ cache = req.before.cache

\* the network calls to the host of the latest call: the latest one before
\* the call, then the call's own
WireOf(host) ==
  (IF host \in DOMAIN req.before.wire THEN <<req.before.wire[host]>> ELSE <<>>)
  \o req.res.sent

\* C16: two successive network calls to one host, retries included, are at
\* least RATE_LIMIT_DELAY apart, and a call sleeps in _rate_limit only for
\* an earlier call to its own host.
C16_PerHostRateLimit ==
  req.valid =>
    LET host == urlparse_netloc(req.r.url)
    IN /\ \A k \in 1..(Len(WireOf(host)) - 1) :
            WireOf(host)[k + 1] - WireOf(host)[k] >= RATE_LIMIT_DELAY
       /\ (req.res.slept > 0 =>
             /\ host \in DOMAIN req.before.table
             /\ req.t - req.before.table[host] < RATE_LIMIT_DELAY)

\* C17: without a rendering engine fetch_headless raises FetchError, makes no
\* network call, uses neither the cache nor the rate-limit table, and
\* returns nothing (no content fetched without rendering).
C17_HeadlessFailsClosed ==
  (req.valid /\ req.r.fn = "fetch_headless" /\ ~HAS_PLAYWRIGHT)
  => /\ req.res.out = Raise("FetchError")
     /\ req.res.sent = <<>>
     /\ req.res.steps = <<>>
     /\ cache = req.before.cache
     /\ _last_request_time = req.before.table
     /\ clock = req.t

C17_Witness ==
  /\ req.valid
  /\ req.r.fn = "fetch_headless"
  /\ ~HAS_PLAYWRIGHT
  /\ \E p \in DOMAIN req.before.cache : p.url_hash = req.r.url
  /\ req.res.out.raised = "FetchError"

\* the transport (or the browser) ends the latest call with a usable body
Succeeds ==
  IF req.r.fn = "fetch_headless"
  THEN HAS_PLAYWRIGHT /\ answer_of(req.e.script, 1) # "err"
  ELSE \E N \in 1..MAX_RETRIES :
         /\ answer_of(req.e.script, N) = OkFor(req.r)
         /\ \A k \in 1..(N - 1) : answer_of(req.e.script, k) \in {"err", "5xx"}

\* C18: when the transport or the browser succeeds, the call returns the
\* fetched content and does not raise, whether or not the cache file can be
\* written; when it can, the entry holds the content when the call returns.
C18_CacheWriteBestEffort ==
  (req.valid /\ Networked /\ req.r.use_cache /\ Succeeds)
  => /\ req.res.out.raised = "no"
     /\ VersionOf(req.r, req.res.out.value) = req.e.v
     /\ (req.e.disk = "ok" =>
           LET p == _get_cache_path(req.r.url, req.r.cache_key_suffix, req.t)
           IN /\ p \in DOMAIN cache
              /\ Delivered(req.r, cache[p].text) = req.res.out.value
              /\ cache[p].st_mtime <= clock)
     /\ (req.e.disk = "fail" => cache = req.before.cache)

C18_Witness ==
  /\ req.valid
  /\ req.r.fn = "fetch_headless"
  /\ Networked
  /\ req.e.disk = "fail"
  /\ req.res.out.raised = "no"
  /\ cache = req.before.cache

\* =========================================================================
\* The dispatcher (Spec)
\* =========================================================================
\* the adapter classes
Adapters == {ADAPTER_REGISTRY[k] : k \in DOMAIN ADAPTER_REGISTRY}

\* C19: get_adapter yields an adapter for every kind, the registered one or
\* else the generic one; requires_headless is membership in the rendering
\* set; process_resort parses with that adapter, renders exactly the kinds
\* of the rendering set, and fetches an unregistered kind with the plain
\* fetch and parses it with the generic adapter.
C19_DispatcherTotal ==
  /\ \A kind \in Kinds :
       /\ get_adapter(kind) \in Adapters
       /\ (kind \in DOMAIN ADAPTER_REGISTRY =>
             get_adapter(kind) = ADAPTER_REGISTRY[kind])
       /\ (kind \notin DOMAIN ADAPTER_REGISTRY =>
             get_adapter(kind) = "GenericHTMLAdapter")
       /\ (requires_headless(kind) <=>
             kind \in {"boreal", "palisades", "tahoe_donner",
                       "placeholder_headless"})
  /\ (last.valid =>
        /\ (Called("fetch_headless") => last.config.kind \in HEADLESS_ADAPTERS)
        /\ (Called("fetch") => last.config.kind \notin HEADLESS_ADAPTERS)
        /\ (last.adapter # None =>
              /\ Called("parse")
              /\ last.config.kind \in DOMAIN ADAPTER_REGISTRY =>
                   Val(last.adapter) = ADAPTER_REGISTRY[last.config.kind])
        /\ (last.config.kind \notin DOMAIN ADAPTER_REGISTRY =>
              /\ Called("fetch")
              /\ ~Called("fetch_headless")
              /\ (last.html # None =>
                    /\ last.adapter = Some("GenericHTMLAdapter")
                    /\ last.result =
                         Some(GenericHTMLAdapter_parse(Val(last.html)).value))))

C19_Witness ==
  /\ last.valid
  /\ last.config.kind = "unlisted"
  /\ Called("fetch")
  /\ last.adapter = Some("GenericHTMLAdapter")
  /\ last.result # None
  /\ Val(last.result).success

FlagsByRule(phrase, ops) ==
  IF phrase = "closed" THEN {Some(FALSE)}
  ELSE IF phrase = "open" THEN {Some(TRUE)}
  ELSE IF ops.lifts_open # None /\ Val(ops.lifts_open) > 0 THEN {Some(TRUE)}
  ELSE IF ops.trails_open # None THEN {Some(Val(ops.trails_open) > 0)}
  ELSE IF ops.lifts_open # None THEN {Some(FALSE), None}
  ELSE {None}

\* C21: the open_flag of every successful outcome of every adapter follows
\* the priority rule: explicit closed / open phrase, else lifts_open > 0,
\* else trails_open > 0, else unknown.
C21_OpenFlagPriority ==
  (/\ call.fn = "parse"
   /\ call.done
   /\ call.out.raised = "no"
   /\ call.out.value.success)
  => call.out.value.ops.open_flag
       \in FlagsByRule(call.page.phrase, call.out.value.ops)

\* a present pair of counts is consistent
Consistent(open, total) ==
  (open # None /\ total # None) => (0 <= Val(open) /\ Val(open) <= Val(total))

\* C22: in every outcome of every adapter a present pair (lifts_open,
\* lifts_total) satisfies 0 <= lifts_open <= lifts_total, and likewise for
\* trails: an inconsistent pair of the page ('2/1 lifts') is not emitted.
C22_CountInvariant ==
  (call.fn = "parse" /\ call.done /\ call.out.raised = "no") =>
     /\ Consistent(call.out.value.ops.lifts_open, call.out.value.ops.lifts_total)
     /\ Consistent(call.out.value.ops.trails_open, call.out.value.ops.trails_total)

\* =========================================================================
\* Embedded structured data (SpecParse)
\* =========================================================================
StructuredAdapters == {"VailResortsAdapter", "PalisadesAdapter"}

\* the same page without its embedded payload: only the text is left
TextOnly(p) == [p EXCEPT !.fault = "none", !.sched = None]

\* C23: in the adapters that read an embedded payload, a well formed
\* payload gives the structured values, and a payload that does not decode
\* or has an unexpected shape is only a miss of the structured path: the
\* outcome is the one the text patterns alone give.
C23_PayloadMissOnly ==
  (/\ call.fn = "parse"
   /\ call.done
   /\ call.adapter \in StructuredAdapters
   /\ call.out.raised = "no")
  => /\ (call.page.fault \in {"payload", "shape"} =>
           call.out = parse(call.adapter, TextOnly(call.page)))
     /\ (/\ call.adapter = "VailResortsAdapter"
         /\ call.page.fault = "none"
         /\ call.page.sched # None
         => /\ call.out.value.success
            /\ call.out.value.ops.lifts_open = call.page.lifts_open
            /\ call.out.value.ops.lifts_scheduled = call.page.sched
            /\ call.out.value.ops.lifts_total = call.page.lifts_total)

\* =========================================================================
\* The inch parser (SpecInches)
\* =========================================================================
\* the text given to parse_inches, when one is given
GivenText == IF call.text = None THEN <<>> ELSE Val(call.text)

\* s is a numeral: digits, optionally a point and digits
IsNumeral(s) ==
  /\ s # <<>>
  /\ s[1] \in Digits
  /\ NumberEnd(s, 1) = Len(s) + 1

NumeralVal(s) == float(s, 1, Len(s) + 1)

IsBlank(s) == \A k \in 1..Len(s) : s[k] = " "

\* an optional unit after the number
UnitTails ==
  {<<>>, <<"quote">>, <<"i", "n">>, <<" ", "i", "n">>,
   <<"i", "n", "c", "h", "e", "s">>, <<" ", "i", "n", "c", "h", "e", "s">>}

\* t is the numeral t[1..e], a hyphen or en-dash at k, the numeral t[m..j]
\* and an optional unit, with nothing but spaces around the dash
IsRange(t, e, k, m, j) ==
  /\ e < k /\ k < m /\ m <= j
  /\ IsNumeral(SubSeq(t, 1, e))
  /\ IsBlank(SubSeq(t, e + 1, k - 1))
  /\ t[k] \in {"-", "endash"}
  /\ IsBlank(SubSeq(t, k + 1, m - 1))
  /\ IsNumeral(SubSeq(t, m, j))
  /\ SubSeq(t, j + 1, Len(t)) \in UnitTails

\* t is the numeral t[1..j] and an optional unit
IsSingle(t, j) ==
  /\ IsNumeral(SubSeq(t, 1, j))
  /\ SubSeq(t, j + 1, Len(t)) \in UnitTails

\* C24: parse_inches returns the arithmetic mean of two numbers joined by a
\* hyphen or an en-dash, the number of a single number with an optional
\* unit, and None for an empty, absent or non-numeric text.
C24_ParseInches ==
  (call.fn = "parse_inches" /\ call.done) =>
     LET t == GivenText
         pos == 1..Len(t)
     IN /\ \A e \in pos, k \in pos, m \in pos, j \in pos :
             IsRange(t, e, k, m, j) =>
               call.out = Some((NumeralVal(SubSeq(t, 1, e))
                                + NumeralVal(SubSeq(t, m, j))) \div 2)
        /\ \A j \in pos :
             IsSingle(t, j) => call.out = Some(NumeralVal(SubSeq(t, 1, j)))
        /\ (\A k \in pos : t[k] \notin Digits) => call.out = None

\* =========================================================================
\* Diamond Peak snow figures (SpecDiamondPeak)
\* =========================================================================
\* the page of the call states the fact
States(fact) ==
  \E k \in 1..Len(call.figures) : call.figures[k].fact = fact

\* C25: DiamondPeakAdapter.parse reports the 24 hour figure of the page as
\* new_snow_24h_in whenever the page states one, wherever the overnight
\* figure stands; the overnight figure only when there is no 24 hour
\* figure; the storm total as new_snow_48h_in; and for the page of the test
\* success with 24h = 5, 48h = 34, base = 16, season = 66.
C25_DiamondPeakSnowPriority ==
  (call.fn = "diamond_peak" /\ call.done) =>
     /\ call.out.raised = "no"
     /\ call.out.value.success
     /\ (States("24h") =>
           call.out.value.snow.new_snow_24h_in = Some(FigureValue("24h")))
     /\ (~States("24h") /\ States("overnight") =>
           call.out.value.snow.new_snow_24h_in = Some(FigureValue("overnight")))
     /\ (States("storm") =>
           call.out.value.snow.new_snow_48h_in = Some(FigureValue("storm")))
     /\ (call.figures = TestFigures =>
           /\ call.out.value.snow.new_snow_24h_in = Some(5)
           /\ call.out.value.snow.new_snow_48h_in = Some(34)
           /\ call.out.value.snow.base_depth_in = Some(16)
           /\ call.out.value.snow.season_total_in = Some(66))

\* =========================================================================
\* Scheduled lifts (SpecParse)
\* =========================================================================
\* the adapters that recognise the status "scheduled" of a lift
ScheduledAdapters == {"VailResortsAdapter", "MtRoseAdapter", "SugarBowlAdapter"}

\* C26: where a page lists lifts whose status is scheduled, an adapter that
\* recognises the status counts them in lifts_scheduled and not in
\* lifts_open: lifts_open is the number of lifts whose status is open.
C26_ScheduledApart ==
  (/\ call.fn = "parse"
   /\ call.done
   /\ call.adapter \in ScheduledAdapters
   /\ call.page.fault = "none"
   /\ call.page.sched # None
   /\ call.page.sched # Some(0))
  => /\ call.out.raised = "no"
     /\ call.out.value.ops.lifts_open = call.page.lifts_open
     /\ call.out.value.ops.lifts_scheduled = call.page.sched
     /\ Val(call.out.value.ops.lifts_open)
          + Val(call.out.value.ops.lifts_scheduled)
          <= Val(call.out.value.ops.lifts_total)

\* =========================================================================
\* What a record owes to the previous run (Spec)
\* =========================================================================
\* previously published records the last iteration could have started from
PreviousRecords(config) ==
  {None,
   Some(ResortConditions(config.slug, config.name, 0, FALSE,
          Sources(config.source_url, None, None),
          [Operations EXCEPT !.lifts_open = Some(1), !.lifts_total = Some(2)],
          Snow, Weather)),
   Some(ResortConditions(config.slug, config.name, 0, TRUE,
          Sources(config.source_url, None, None),
          Operations, [Snow EXCEPT !.base_depth_in = Some(48)], Weather))}

\* the record the last iteration would have emitted, with the same live
\* outcomes, had the published record of its resort been prev
EmittedFrom(prev) ==
  LET out == process_resort(last.config, HAS_PLAYWRIGHT, last.net, last.wx,
                            [store EXCEPT ![last.config.slug] = prev], now)
  IN update_step(<<>>, last.config, out, now)[1]

Iterated == last.valid

\* C27 as stated: with identical live outcomes, the record agrees on every
\* field other than stale whatever the previously published record was.
C27_OnlyStaleHistorical ==
  Iterated =>
    \A prev \in PreviousRecords(last.config) :
       [EmittedFrom(prev) EXCEPT !.stale = FALSE]
         = [last.emitted EXCEPT !.stale = FALSE]

\* C27 amended: with identical live outcomes, the record agrees on every
\* field other than ops and snow (stale included) whatever the previously
\* published record was, and on ops and snow too when the live parse
\* succeeded.
C27_OnlyFactsHistorical ==
  Iterated =>
    \A prev \in PreviousRecords(last.config) :
       /\ [EmittedFrom(prev) EXCEPT !.ops = Operations, !.snow = Snow]
            = [last.emitted EXCEPT !.ops = Operations, !.snow = Snow]
       /\ (~last.failed => EmittedFrom(prev) = last.emitted)

C27_Witness ==
  /\ Iterated
  /\ last.failed
  /\ last.emitted.stale
  /\ last.prev # None
  /\ last.emitted.ops = Val(last.prev).ops
  /\ \E prev \in PreviousRecords(last.config) :
       /\ EmittedFrom(prev).ops # last.emitted.ops
       /\ EmittedFrom(prev).stale

\* =========================================================================
\* Concurrent callers of the rate limiter (SpecWorkers)
\* =========================================================================
\* C28: two workers that call _rate_limit for the same host at the same
\* time never both pass it less than RATE_LIMIT_DELAY apart: the check and
\* the update of _last_request_time are atomic for other callers.
C28_AtomicRateLimit ==
  call.fn = "_rate_limit" =>
    \A v \in Workers, w \in Workers :
       (/\ v # w
        /\ urlparse_netloc(call.url[v]) = urlparse_netloc(call.url[w])
        /\ call.passed[v] # None
        /\ call.passed[w] # None
        /\ Val(call.passed[v]) <= Val(call.passed[w]))
       => Val(call.passed[w]) - Val(call.passed[v]) >= RATE_LIMIT_DELAY

\* =========================================================================
\* write_json_atomic (SpecWrite)
\* =========================================================================
\* the complete JSON text of the data, when it has one
JsonText(data) ==
  <<"[">> \o [n \in 1..Len(data) |-> IF data[n] = "now" THEN "iso" ELSE data[n]]
          \o <<"]", "\n">>

\* a reader of the target sees the complete previous content or the
\* complete new text, and nothing else
TargetWhole ==
  \/ call.dir.target = call.before
  \/ /\ \A n \in 1..Len(call.data) : call.data[n] # "bad"
     /\ call.dir.target = Some(JsonText(call.data))

WriteDone == call.at = "done" /\ call.out # None

WriteRaised == WriteDone /\ Val(call.out).raised # "no"

\* a failure of serialisation or of the rename propagates and leaves the
\* target as it was; a return means the new text is in place
WriteOutcome ==
  /\ (WriteDone /\ call.exc # None)
       => Val(call.out) = Raise(Val(call.exc))
  /\ WriteRaised => call.dir.target = call.before
  /\ (WriteDone /\ ~WriteRaised)
       => /\ call.dir.target = Some(JsonText(call.data))
          /\ call.dir.temp = None

\* C29: at every point of write_json_atomic the target holds the complete
\* previous content or the complete new JSON; when serialisation or the
\* rename fails the exception propagates, the target keeps its previous
\* content and the temporary file is removed.
C29_AllOrNothing ==
  call.fn = "write_json_atomic" =>
    /\ TargetWhole
    /\ WriteOutcome
    /\ WriteRaised => call.dir.temp = None

\* C29 as the code has it: the same, except that the temporary file stays
\* behind when the os.unlink of the clean-up itself raises OSError, which
\* the code passes over.
C29_AllOrNothingBestEffortCleanup ==
  call.fn = "write_json_atomic" =>
    /\ TargetWhole
    /\ WriteOutcome
    /\ (WriteRaised /\ ~call.unlink_error) => call.dir.temp = None

\* the rename failed after the whole text was written to the temporary
\* file, over an existing target: the error is raised, the target is as
\* before, the temporary file is gone
C29_Witness ==
  /\ call.fn = "write_json_atomic"
  /\ WriteRaised
  /\ call.exc = Some("OSError")
  /\ call.k = Len(call.json_data) + 2
  /\ call.k > 2
  /\ call.before # None
  /\ call.before # Some(JsonText(call.data))
  /\ call.dir.target = call.before
  /\ call.dir.temp = None
  /\ ~call.unlink_error

\* =========================================================================
\* Reads of the published files against the writes of the same run (Spec)
\* =========================================================================
\* C30: while a run is between its start and write_all_outputs, every
\* published file is the one an earlier run left; the record the latest
\* process_resort call read with load_existing_resort is that file, and the
\* facts in the record of a failed acquisition are none or those of that
\* earlier record, also when another entry of the run has the same slug.
C30_ReadsBeforeWrites ==
  pc # "idle" =>
    /\ \A s \in Slugs :
         store[s] # None => Val(store[s]).fetched_at_utc < now
    /\ last.valid =>
         /\ last.prev = load_existing_resort(store, last.config.slug)
         /\ last.failed =>
              /\ last.emitted.ops \in
                   {Operations} \cup {r.ops : r \in last.prev}
              /\ last.emitted.snow \in
                   {Snow} \cup {r.snow : r \in last.prev}

\* the second of two entries with one slug failed in a later run, after the
\* first produced a fresh record with other facts: the stale record carries
\* the facts of the file the earlier run published
C30_Witness ==
  /\ pc # "idle"
  /\ last.valid
  /\ last.failed
  /\ ~last.raised
  /\ last.prev # None
  /\ Val(last.prev).fetched_at_utc < now
  /\ last.emitted.ops = Val(last.prev).ops
  /\ \E k \in 1..(Len(results) - 1) :
       /\ results[k].slug = last.config.slug
       /\ ~results[k].stale
       /\ results[k].fetched_at_utc = now
       /\ results[k].ops # last.emitted.ops

====
